---- MODULE Spec2Model ----
(***************************************************************************)
(* Verification model of the IntelliAgent scoring pipeline:                *)
(*   - BeliefGenerator      (intelliagent/core/belief_generator.py)        *)
(*   - ChainOfThought       (intelliagent/core/chain_of_thought.py)        *)
(*   - ExplainabilityEngine (intelliagent/core/explainability.py)          *)
(* Floating-point scores are kept as exact integers: belief and thought    *)
(* confidences in hundredths, factor weights in hundredths.                *)
(* An Optional[T] value is a sequence of length <= 1: << >> is None.       *)
(***************************************************************************)
EXTENDS Integers, Sequences, FiniteSets, TLC

\* ------------------------------------------------------------------------
\* Bounds of the model
\* ------------------------------------------------------------------------
MaxBeliefs == 2
MaxEvidence == 6
MaxClock == 1
MaxThoughts == 3
MaxGenCalls == 2
MaxPredictions == 2
MaxCacheClock == 2
MaxRateClock == 3
MaxAccepted == 4
MaxProfilerClock == 2
MaxSamples == 3
MaxFailures == 1
MaxWorkflowLen == 2

\* ------------------------------------------------------------------------
\* Input domains
\* ------------------------------------------------------------------------
\* Statements are sequences of characters so that str.lower() is computed.
Statements == { <<"a">>, <<"A">>, <<"b">> }
EvidenceLists == { <<>>, <<"e1">>, <<"e2", "e3", "e4">> }
BeliefContexts == { "day" }
Thresholds == { 0, 70 }

\* A dict is a set of <<key, value>> pairs with distinct keys.
\* add_thought inputs: <<content, confidence (hundredths), context>>
ThoughtInputs ==
    { << "First",  80, { <<"key1", "value1">>, <<"key2", "old">> } >>,
      << "Second", 60, { <<"key2", "new">>, <<"key3", "value3">> } >> }
\* an id that add_thought never returned
UnknownThoughtId == 0

\* Context keys and decisions are sequences of characters (substring tests).
ContextKeyNames == { <<"a">>, <<"b">>, <<"K", "e", "y">> }
\* context values: the Python type and the len() of the (stripped) value
ContextValues ==
    { [ type |-> "str", size |-> 6 ], [ type |-> "int", size |-> 0 ],
      [ type |-> "bool", size |-> 0 ], [ type |-> "dict", size |-> 1 ] }
Decisions == { <<"i", "s">>, <<"g", "o">> }
ExplanationChains ==
    { <<>>,
      << [ content |-> "t1", confidence |-> 90 ] >>,
      << [ content |-> "t1", confidence |-> 90 ],
         [ content |-> "t2", confidence |-> 80 ] >> }
ExplanationConfidences == { 50, 85 }

\* prediction probabilities whose log2 is exact, as fractions
Probabilities == { << 0, 1 >>, << 1, 4 >>, << 1, 2 >>, << 1, 1 >> }
\* UncertaintyHandler(confidence_threshold), in hundredths
HandlerThresholds == { 50, 70 }
\* contexts of evaluate_uncertainty: confidence in hundredths, timestamp as
\* what parsing it and subtracting it from datetime.now() gives
UncertaintyContexts ==
    { {},
      { << "confidence", 80 >>,
        << "timestamp", [ iso |-> TRUE, hours_ago |-> 12 ] >> },
      { << "timestamp", [ iso |-> TRUE, hours_ago |-> 48 ] >> },
      { << "timestamp", [ iso |-> FALSE, hours_ago |-> 0 ] >> } }

\* CacheManager: keys, values, constructor arguments and the ttl argument of
\* set (None, 0 and one second)
CacheKeys == { "k1", "k2" }
CacheValues == { "v1", "v2" }
CacheMaxSizes == { 0, 1, 2 }
CacheTtls == { 2 }
CacheTtlArgs == { <<>>, << 0 >>, << 1 >> }

\* RateLimiter: the calling threads, the users, and the constructor
\* arguments <<requests_per_minute, burst_limit>>
RateThreads == { 1, 2 }
NoThread == 0
RateUsers == { "u1", "u2" }
\* the user the concurrent calls are made for
ThreadedUsers == { "u1" }
RateLimits == { << 3, 2 >>, << 1, 2 >> }
\* timedelta(minutes=1) in clock ticks of 30 seconds
Minute == 2

\* PerformanceProfiler: section names (tuples, as the decorator's names
\* have two parts) and the names of decorated functions
ProfileNames == { << "a" >>, << "b" >> }
ProfiledFunctions == { "f" }

\* SystemMonitor: the Thread objects start() can create, and the
\* num_samples arguments of get_average_metrics
MonitorThreads == { 1, 2 }
AverageSampleCounts == { 2 }

\* DecisionMaker: DecisionMaker(requests_per_minute=...), and the cache.json
\* found in the cache directory at construction: none, or one entry written
\* by an earlier CacheManager on the same directory
DecisionRateLimits == { 1 }
DecisionCaches ==
    { <<>>,
      << [ key |-> "k1", value |-> "v1", timestamp |-> 0, ttl |-> 3600 ] >> }
\* the public methods context_analyzer.py defines on ContextAnalyzer
ContextAnalyzerMethods ==
    { "analyze_input", "merge_contexts", "get_relevant_history" }

\* ComplexDecisionMaker: step names, the required_context lists a step is
\* registered with, workflow names, the initial_context dicts, and what
\* awaiting a step's handler does: it returns a dict, returns another
\* value, runs into the timeout, or raises
StepNames == { "s1", "s2" }
RequiredContexts == { {}, { "k" } }
WorkflowNames == { "w" }
StepNameLists == UNION { [ 1..n -> StepNames ] : n \in 0..MaxWorkflowLen }
InitialContexts == { {}, { << "k", 0 >> } }
StepOutcomes == { "dict", "value", "timeout", "raise" }

\* ModelDeployer: model ids, versions and environments, as sequences of
\* characters so that the deployment id is computed
ModelIds == { << "m" >> }
Versions == { << "1" >>, << "2" >> }
Environments == { << "p" >>, << "q" >> }

VARIABLES
    confidence_threshold,   \* BeliefGenerator.confidence_threshold (hundredths)
    beliefs,                \* BeliefGenerator.beliefs
    now,                    \* the wall clock read by datetime.now()
    beliefCall,             \* the last BeliefGenerator call and what it returned
    thoughts,               \* ChainOfThought.thoughts
    addCalls,               \* number of add_thought calls made so far
    thoughtCall,            \* the last ChainOfThought call and what it returned
    explanations,           \* ExplainabilityEngine.explanations (a dict)
    genCalls,               \* number of generate_explanation calls made so far
    explCall,               \* the last ExplainabilityEngine call and its outcome
    handler_threshold,      \* UncertaintyHandler.confidence_threshold (hundredths)
    uncertaintyCall,        \* the last UncertaintyHandler call and its result
    cache_max_size,         \* CacheManager.max_size
    cache_ttl,              \* CacheManager.ttl (seconds)
    cache,                  \* CacheManager.cache
    cache_file,             \* the text of <cache_dir>/cache.json, <<>> if absent
    cache_clock,            \* the wall clock read by CacheManager (seconds)
    last_set,               \* per key, the arguments of the latest set(key, ...)
    cacheCall,              \* the last CacheManager call and what it returned
    rate_limit,             \* RateLimiter.rate_limit
    burst_limit,            \* RateLimiter.burst_limit
    requests,               \* RateLimiter.requests
    rate_lock,              \* RateLimiter.lock: the thread holding it
    rate_clock,             \* the wall clock read by RateLimiter (ticks)
    rate_thread,            \* per thread, the call it is in and its locals
    accepted,               \* the check_limit calls that returned True so far
    rateCall,               \* the last RateLimiter call that returned
    profiles,               \* PerformanceProfiler.profiles
    current_profile,        \* PerformanceProfiler.current_profile
    profiles_created,       \* number of cProfile.Profile objects created
    session_open,           \* a start_profiling succeeded and no stop since
    profiler_clock,         \* the wall clock read by PerformanceProfiler
    profilerCall,           \* the last PerformanceProfiler call and its outcome
    is_running,             \* SystemMonitor.is_running
    monitoring_thread,      \* SystemMonitor.monitoring_thread
    monitor_threads,        \* per Thread object, where it is in _monitor_loop
    metrics_queue,          \* SystemMonitor.metrics_queue (FIFO)
    samples_collected,      \* number of samples _collect_metrics returned
    last_sample,            \* the sample put on the queue most recently
    failed_collections,     \* number of collections that raised (capped)
    caller,                 \* the calling thread: "idle", or "joining" in stop()
    monitorCall,            \* the last SystemMonitor call that returned
    decisionCall,           \* the last make_decision call and its outcome
    steps,                  \* ComplexDecisionMaker.steps
    workflows,              \* ComplexDecisionMaker.workflows
    complexCall,            \* the last ComplexDecisionMaker call and its outcome
    active_deployments,     \* ModelDeployer.active_deployments
    deployment_paths,       \* the deployment ids with a directory on disk
    archived,               \* the deployment ids with a copy under archive/
    deployCall              \* the last ModelDeployer call and its outcome

beliefVars == <<confidence_threshold, beliefs, beliefCall>>
thoughtVars == <<thoughts, addCalls, thoughtCall>>
explVars == <<explanations, genCalls, explCall>>
uncertaintyVars == <<handler_threshold, uncertaintyCall>>
\* the components added to the three above
cacheVars == <<cache_max_size, cache_ttl, cache, cache_file, cache_clock,
               last_set, cacheCall>>
rateVars == <<rate_limit, burst_limit, requests, rate_lock, rate_clock,
              rate_thread, accepted, rateCall>>
profilerVars == <<profiles, current_profile, profiles_created, session_open,
                  profiler_clock, profilerCall>>
monitorVars == <<is_running, monitoring_thread, monitor_threads,
                 metrics_queue, samples_collected, last_sample,
                 failed_collections, caller, monitorCall>>
decisionVars == <<decisionCall>>
complexVars == <<steps, workflows, complexCall>>
deployVars == <<active_deployments, deployment_paths, archived, deployCall>>
lastVars == <<decisionVars, complexVars, deployVars>>
moreVars == <<uncertaintyVars, cacheVars, rateVars, profilerVars, monitorVars, lastVars>>
coreVars == <<now, beliefVars, thoughtVars, explVars>>
notUncertaintyVars == <<coreVars, cacheVars, rateVars, profilerVars,
                        monitorVars, lastVars>>
notCacheVars == <<coreVars, uncertaintyVars, rateVars, profilerVars,
                  monitorVars, lastVars>>
notRateVars == <<coreVars, uncertaintyVars, cacheVars, profilerVars,
                 monitorVars, lastVars>>
notProfilerVars == <<coreVars, uncertaintyVars, cacheVars, rateVars,
                     monitorVars, lastVars>>
notMonitorVars == <<coreVars, uncertaintyVars, cacheVars, rateVars,
                    profilerVars,
                     lastVars>>
notComplexVars == <<coreVars, uncertaintyVars, cacheVars, rateVars,
                    profilerVars, monitorVars, decisionVars, deployVars>>
notDeployVars == <<coreVars, uncertaintyVars, cacheVars, rateVars,
                   profilerVars, monitorVars, decisionVars, complexVars>>
vars == <<coreVars, moreVars>>

\* ------------------------------------------------------------------------
\* Helpers
\* ------------------------------------------------------------------------
Min(a, b) == IF a <= b THEN a ELSE b

\* str.lower() on one character
LowerChar(c) ==
    CASE c = "A" -> "a"
      [] c = "B" -> "b"
      [] c = "K" -> "k"
      [] c = "M" -> "m"
      [] OTHER -> c

\* str.lower()
Lower(s) == [i \in 1..Len(s) |-> LowerChar(s[i])]

\* datetime.now(): time does not go back, and may stand still between reads
ClockReads == { t \in {now, now + 1} : t <= MaxClock }

\* ------------------------------------------------------------------------
\* BeliefGenerator
\* ------------------------------------------------------------------------
\* _calculate_confidence, in hundredths
CalculateConfidence_Flat(statement, evidence) ==
    IF evidence = <<>> THEN 0
    ELSE 95

CalculateConfidence(statement, evidence) ==
    IF evidence = <<>> THEN 0
    ELSE Min(50 + Len(evidence) * 10, 95)

\* _find_belief: index of the first stored belief whose lowered statement
\* matches, 0 when there is none
FindBeliefIndex(bs, statement) ==
    IF \E i \in 1..Len(bs) : Lower(bs[i].statement) = Lower(statement)
    THEN CHOOSE i \in 1..Len(bs) :
            /\ Lower(bs[i].statement) = Lower(statement)
            /\ \A j \in 1..(i - 1) : Lower(bs[j].statement) # Lower(statement)
    ELSE 0

\* _find_belief as an Optional[Belief]
FindBelief(bs, statement) ==
    IF FindBeliefIndex(bs, statement) = 0 THEN <<>>
    ELSE << bs[FindBeliefIndex(bs, statement)] >>

\* list.remove(x): drops the first element equal to x (dataclass equality)
ListRemove_Keep(list, x) == list

ListRemove(list, x) ==
    IF \E i \in 1..Len(list) : list[i] = x
    THEN LET k == CHOOSE i \in 1..Len(list) :
                    /\ list[i] = x
                    /\ \A j \in 1..(i - 1) : list[j] # x
         IN  SubSeq(list, 1, k - 1) \o SubSeq(list, k + 1, Len(list))
    ELSE list

\* Belief(...)
Belief(statement, confidence, evidence, timestamp, source, metadata) ==
    [ statement |-> statement, confidence |-> confidence,
      evidence |-> evidence, timestamp |-> timestamp,
      source |-> source, metadata |-> metadata ]

\* get_beliefs(min_confidence); << >> stands for the default None
GetBeliefs(min_confidence) ==
    LET m == IF min_confidence = <<>> THEN confidence_threshold
             ELSE min_confidence[1]
    IN  SelectSeq(beliefs, LAMBDA b : b.confidence >= m)

\* the append of generate_belief: only at or above the threshold
StoreBelief_Always(bs, belief) == Append(bs, belief)

StoreBelief_Unique(bs, belief) ==
    IF /\ belief.confidence >= confidence_threshold
       /\ \A i \in 1..Len(bs) : bs[i].statement # belief.statement
    THEN Append(bs, belief)
    ELSE bs

StoreBelief(bs, belief) ==
    IF belief.confidence >= confidence_threshold
    THEN Append(bs, belief)
    ELSE bs

generate_belief(input_data, context, evidence) ==
    /\ \E t \in ClockReads :
         LET confidence == CalculateConfidence(input_data, evidence)
             belief == Belief(input_data, confidence, evidence, t, "agent",
                              [context |-> context])
         IN  /\ Len(StoreBelief(beliefs, belief)) <= MaxBeliefs
             /\ now' = t
             /\ beliefs' = StoreBelief(beliefs, belief)
             /\ beliefCall' = [ op |-> "generate_belief",
                                statement |-> input_data,
                                evidence |-> evidence,
                                replaced |-> <<>>,
                                result |-> << belief >> ]
    /\ UNCHANGED <<confidence_threshold, thoughtVars, explVars, moreVars>>

update_belief(statement, new_evidence) ==
    LET existing == FindBelief(beliefs, statement) IN
    IF existing = <<>>
    THEN /\ beliefCall' = [ op |-> "update_belief",
                            statement |-> statement,
                            evidence |-> new_evidence,
                            replaced |-> <<>>,
                            result |-> <<>> ]
         /\ UNCHANGED <<confidence_threshold, beliefs, now, thoughtVars, explVars, moreVars>>
    ELSE LET existing_belief == existing[1]
             all_evidence == existing_belief.evidence \o new_evidence
             new_confidence == CalculateConfidence(statement, all_evidence)
         IN  /\ Len(all_evidence) <= MaxEvidence
             /\ \E t \in ClockReads :
                  LET updated_belief ==
                        Belief(statement, new_confidence, all_evidence, t,
                               existing_belief.source,
                               existing_belief.metadata)
                  IN  /\ now' = t
                      /\ beliefs' = Append(ListRemove(beliefs, existing_belief),
                                           updated_belief)
                      /\ beliefCall' = [ op |-> "update_belief",
                                         statement |-> statement,
                                         evidence |-> new_evidence,
                                         replaced |-> existing,
                                         result |-> << updated_belief >> ]
             /\ UNCHANGED <<confidence_threshold, thoughtVars, explVars, moreVars>>

get_beliefs ==
    /\ beliefCall' = [ op |-> "get_beliefs", statement |-> <<>>,
                       evidence |-> <<>>, replaced |-> <<>>,
                       result |-> GetBeliefs(<<>>) ]
    /\ UNCHANGED <<confidence_threshold, beliefs, now, thoughtVars, explVars, moreVars>>

NoBeliefCall ==
    [ op |-> "init", statement |-> <<>>, evidence |-> <<>>,
      replaced |-> <<>>, result |-> <<>> ]

GenerateBelief ==
    \E s \in Statements, c \in BeliefContexts, e \in EvidenceLists :
        generate_belief(s, c, e)

UpdateBelief ==
    \E s \in Statements, e \in EvidenceLists : update_belief(s, e)

BeliefNext ==
    \/ GenerateBelief
    \/ UpdateBelief
    \/ get_beliefs

\* ------------------------------------------------------------------------
\* ChainOfThought
\* ------------------------------------------------------------------------
\* dict helpers
Keys(d) == { p[1] : p \in d }
Get(d, k) == (CHOOSE p \in d : p[1] = k)[2]

\* uuid.uuid4(): an id no stored thought carries
NewThoughtId(ths) == Len(ths) + 1

\* Thought(...)
Thought(id, content, confidence, context, timestamp, previous_thought_id) ==
    [ id |-> id, content |-> content, confidence |-> confidence,
      context |-> context, timestamp |-> timestamp,
      previous_thought_id |-> previous_thought_id ]

\* self.thoughts.append(thought)
AppendThought_Front(ths, thought) == <<thought>> \o ths

AppendThought(ths, thought) == Append(ths, thought)

\* _find_thought: the first stored thought with the id, as an Optional
FindThought(ths, thought_id) ==
    IF \E i \in 1..Len(ths) : ths[i].id = thought_id
    THEN LET k == CHOOSE i \in 1..Len(ths) :
                    /\ ths[i].id = thought_id
                    /\ \A j \in 1..(i - 1) : ths[j].id # thought_id
         IN  << ths[k] >>
    ELSE <<>>

\* the while loop of get_chain.  The loop is followed for Len(ths) + 1
\* iterations at most: a walk that long has come back to a thought it has
\* visited and never ends, and the chain of more than Len(ths) thoughts
\* stands for it.
RECURSIVE WalkChain_NoAdvance(_, _, _)
WalkChain_NoAdvance(ths, current_id, chain) ==
    IF current_id = <<>> \/ Len(chain) > Len(ths) THEN chain
    ELSE LET thought == FindThought(ths, current_id[1])
         IN  IF thought = <<>> THEN chain
             ELSE WalkChain_NoAdvance(ths, current_id, <<thought[1]>> \o chain)

RECURSIVE WalkChain(_, _, _)
WalkChain(ths, current_id, chain) ==
    IF current_id = <<>> \/ Len(chain) > Len(ths) THEN chain
    ELSE LET thought == FindThought(ths, current_id[1])
         IN  IF thought = <<>> THEN chain
             ELSE WalkChain(ths, thought[1].previous_thought_id,
                            <<thought[1]>> \o chain)

\* get_chain(thought_id); << >> stands for the default None
GetChain_All(ths, thought_id) == ths

GetChain(ths, thought_id) ==
    IF thought_id = <<>> THEN ths
    ELSE WalkChain(ths, thought_id, <<>>)

\* _compare_contexts: a dict key -> change
CompareContexts(context1, context2) ==
    LET all_keys == Keys(context1) \cup Keys(context2)
        changed == { key \in all_keys :
                        \/ key \notin Keys(context1)
                        \/ key \notin Keys(context2)
                        \/ Get(context1, key) # Get(context2, key) }
    IN  { << key,
             IF key \notin Keys(context1)
             THEN [ kind |-> "added", from |-> <<>>,
                    to |-> << Get(context2, key) >> ]
             ELSE IF key \notin Keys(context2)
             THEN [ kind |-> "removed", from |-> << Get(context1, key) >>,
                    to |-> <<>> ]
             ELSE [ kind |-> "from_to", from |-> << Get(context1, key) >>,
                    to |-> << Get(context2, key) >> ] >> : key \in changed }

RECURSIVE SumConfidence(_)
SumConfidence(chain) ==
    IF chain = <<>> THEN 0
    ELSE chain[1].confidence + SumConfidence(Tail(chain))

\* analyze_chain; the average is kept as the fraction sum / count, and
\* context_evolution as a dict step number -> changes
AnalyzeChain(thought_chain) ==
    IF thought_chain = <<>>
    THEN [ length |-> 0, average_confidence |-> <<0, 1>>,
           context_evolution |-> {} ]
    ELSE [ length |-> Len(thought_chain),
           average_confidence |->
               << SumConfidence(thought_chain), Len(thought_chain) >>,
           context_evolution |->
               { << i, CompareContexts(thought_chain[i].context,
                                       thought_chain[i + 1].context) >> :
                   i \in { j \in 1..(Len(thought_chain) - 1) :
                             CompareContexts(thought_chain[j].context,
                                             thought_chain[j + 1].context)
                               # {} } } ]

NoThoughtCall ==
    [ op |-> "init", content |-> "", confidence |-> 0, context |-> {},
      previous_thought_id |-> <<>>, thought_id |-> <<>>,
      thought_chain |-> <<>>, id |-> <<>>, chain |-> <<>>,
      analysis |-> AnalyzeChain(<<>>) ]

add_thought(content, confidence, context, previous_thought_id) ==
    /\ Len(thoughts) < MaxThoughts
    /\ \E t \in ClockReads :
         LET thought_id == NewThoughtId(thoughts)
             thought == Thought(thought_id, content, confidence, context, t,
                                previous_thought_id)
         IN  /\ now' = t
             /\ thoughts' = AppendThought(thoughts, thought)
             /\ addCalls' = addCalls + 1
             /\ thoughtCall' = [ NoThoughtCall EXCEPT
                                   !.op = "add_thought",
                                   !.content = content,
                                   !.confidence = confidence,
                                   !.context = context,
                                   !.previous_thought_id = previous_thought_id,
                                   !.id = << thought_id >> ]
    /\ UNCHANGED <<beliefVars, explVars, moreVars>>

get_chain(thought_id) ==
    /\ thoughtCall' = [ NoThoughtCall EXCEPT
                          !.op = "get_chain",
                          !.thought_id = thought_id,
                          !.chain = GetChain(thoughts, thought_id) ]
    /\ UNCHANGED <<thoughts, addCalls, now, beliefVars, explVars, moreVars>>

analyze_chain(thought_chain) ==
    /\ thoughtCall' = [ NoThoughtCall EXCEPT
                          !.op = "analyze_chain",
                          !.thought_chain = thought_chain,
                          !.analysis = AnalyzeChain(thought_chain) ]
    /\ UNCHANGED <<thoughts, addCalls, now, beliefVars, explVars, moreVars>>

\* the ids a caller can pass: none, one returned earlier, or an unknown one
ThoughtIdArgs ==
    { <<>>, << UnknownThoughtId >> }
      \cup { << thoughts[i].id >> : i \in 1..Len(thoughts) }

AddThought ==
    \E in \in ThoughtInputs, p \in ThoughtIdArgs :
        add_thought(in[1], in[2], in[3], p)

GetChainCall == \E id \in ThoughtIdArgs : get_chain(id)

\* analyze_chain is given a chain that get_chain returns
AnalyzeChainCall ==
    \E id \in ThoughtIdArgs : analyze_chain(GetChain(thoughts, id))

ThoughtNext ==
    \/ AddThought
    \/ GetChainCall
    \/ AnalyzeChainCall

\* ------------------------------------------------------------------------
\* ExplainabilityEngine
\* ------------------------------------------------------------------------
\* `sub in s` on strings
Contains(s, sub) ==
    \E i \in 0..(Len(s) - Len(sub)) :
        \A k \in 1..Len(sub) : s[i + k] = sub[k]

\* any(word in s for word in words)
ContainsAny(s, words) == \E w \in words : Contains(s, w)

important_keywords ==
    { <<"p", "r", "i", "o", "r", "i", "t", "y">>,
      <<"c", "r", "i", "t", "i", "c", "a", "l">>,
      <<"e", "s", "s", "e", "n", "t", "i", "a", "l">>,
      <<"k", "e", "y">>,
      <<"m", "a", "i", "n">> }

\* isinstance(value, (int, float)): bool is a subclass of int
IsNumber(value) == value.type \in { "int", "float", "bool" }

\* _calculate_factor_weight, in hundredths
CalculateFactorWeight(key, value) ==
    LET typed == IF IsNumber(value) THEN 120
                 ELSE IF value.type = "bool" THEN 110
                 ELSE IF value.type = "dict" THEN 130
                 ELSE 100
    IN  IF ContainsAny(Lower(key), important_keywords)
        THEN (typed * 3) \div 2
        ELSE typed

\* _calculate_factor_confidence, in hundredths
CalculateFactorConfidence(value) ==
    IF value.type = "none" THEN 0
    ELSE IF IsNumber(value) THEN 100
    ELSE IF value.type = "bool" THEN 100
    ELSE IF value.type = "str"
         THEN IF value.size = 0 THEN 0 ELSE Min(100, value.size)
    ELSE IF value.type = "dict" THEN Min(100, value.size * 20)
    ELSE IF value.type \in { "list", "tuple" } THEN Min(100, value.size * 10)
    ELSE 50

\* _categorize_factor
CategorizeFactor(key, value) ==
    IF ContainsAny(Lower(key),
         { <<"t", "i", "m", "e">>,
           <<"d", "a", "t", "e">>,
           <<"d", "u", "r", "a", "t", "i", "o", "n">>,
           <<"p", "e", "r", "i", "o", "d">> })
    THEN "temporal"
    ELSE IF IsNumber(value) THEN "numerical"
    ELSE IF ContainsAny(Lower(key),
         { <<"s", "t", "a", "t", "u", "s">>,
           <<"s", "t", "a", "t", "e">>,
           <<"c", "o", "n", "d", "i", "t", "i", "o", "n">> })
    THEN "state"
    ELSE IF ContainsAny(Lower(key),
         { <<"u", "s", "e", "r">>,
           <<"p", "e", "r", "s", "o", "n">>,
           <<"c", "l", "i", "e", "n", "t">> })
    THEN "user"
    ELSE "general"

RECURSIVE SumWeights(_)
SumWeights(context) ==
    IF context = {} THEN 0
    ELSE LET p == CHOOSE q \in context : TRUE
         IN  CalculateFactorWeight(p[1], p[2]) + SumWeights(context \ {p})

\* factor.influence_score /= total_weight: the score as the fraction
\* <<numerator, denominator>>; without normalisation the weight itself
NormalizeScore_Skip(weight, total_weight) == << weight, 100 >>

NormalizeScore(weight, total_weight) ==
    IF total_weight > 0 THEN << weight, total_weight >>
    ELSE << weight, 100 >>

\* _analyze_context_influence: a dict key -> ContextFactor
AnalyzeContextInfluence(context) ==
    LET total_weight == SumWeights(context)
    IN  { << p[1],
             [ name |-> p[1], value |-> p[2],
               influence_score |->
                   NormalizeScore(CalculateFactorWeight(p[1], p[2]),
                                  total_weight),
               confidence |-> CalculateFactorConfidence(p[2]),
               category |-> CategorizeFactor(p[1], p[2]) ] >> : p \in context }

\* _infer_decision_type
InferDecisionType(decision) ==
    IF ContainsAny(Lower(decision),
         { <<"s", "h", "o", "u", "l", "d">>,
           <<"m", "u", "s", "t">>,
           <<"n", "e", "e", "d">> })
    THEN "recommendation"
    ELSE IF ContainsAny(Lower(decision),
         { <<"i", "s">>,
           <<"a", "r", "e">>,
           <<"w", "a", "s">>,
           <<"w", "e", "r", "e">> })
    THEN "classification"
    ELSE IF ContainsAny(Lower(decision),
         { <<"w", "i", "l", "l">>,
           <<"g", "o", "i", "n", "g", " ", "t", "o">> })
    THEN "prediction"
    ELSE "general"

\* _collect_evidence; the average confidence is the fraction sum / count
CollectEvidence(context, thought_chain) ==
    [ context_based |->
          { p \in context : p[2].type \in { "str", "int", "float", "bool" } },
      reasoning_based |->
          SelectSeq(thought_chain, LAMBDA th : th.confidence > 80),
      confidence_based |->
          IF thought_chain = <<>> THEN <<>>
          ELSE << << SumConfidence(thought_chain), Len(thought_chain) >> >> ]

\* strftime('%Y%m%d_%H%M%S'): the clock reading cut to whole seconds
TicksPerSecond == 2
FormatSeconds(t) == t \div TicksPerSecond

\* the fields of the Explanation dataclass, none of which has a default
ExplanationFields ==
    { "decision_id", "reasoning_steps", "evidence", "confidence",
      "metadata", "timestamp", "context_influence", "key_factors" }

\* Explanation(**kwargs): the dataclass __init__ raises TypeError when a
\* field without default is not given
NewExplanation(kwargs) ==
    IF ExplanationFields \subseteq DOMAIN kwargs
    THEN [ raised |-> "", value |-> << kwargs >> ]
    ELSE [ raised |-> "TypeError", value |-> <<>> ]

\* self.explanations[decision_id] = explanation
StoreExplanation(exps, explanation) ==
    { p \in exps : p[1] # explanation.decision_id }
      \cup { << explanation.decision_id, explanation >> }

\* get_explanation: dict.get
GetExplanation(exps, decision_id) ==
    IF \E p \in exps : p[1] = decision_id
    THEN << (CHOOSE p \in exps : p[1] = decision_id)[2] >>
    ELSE <<>>

\* _filter_explanations_by_time(None)
FilterExplanationsByTime(exps) == { p[2] : p \in exps }

RECURSIVE SumExplConfidence(_)
SumExplConfidence(es) ==
    IF es = {} THEN 0
    ELSE LET e == CHOOSE x \in es : TRUE
         IN  e.confidence + SumExplConfidence(es \ {e})

\* get_historical_analysis(): total_decisions and average_confidence (the
\* factor and category tables are not part of the model)
GetHistoricalAnalysis(exps) ==
    LET es == FilterExplanationsByTime(exps)
    IN  [ total_decisions |-> Cardinality(exps),
          average_confidence |->
              IF es = {} THEN <<0, 1>>
              ELSE << SumExplConfidence(es), Cardinality(es) >> ]

\* ContextFactor.__eq__ (dataclass): every field equal; influence_score is a
\* float, here a fraction
FactorsEqual_IgnoreScore(f1, f2) ==
    /\ f1.name = f2.name
    /\ f1.value = f2.value
    /\ f1.confidence = f2.confidence
    /\ f1.category = f2.category

FactorsEqual(f1, f2) ==
    /\ f1.name = f2.name
    /\ f1.value = f2.value
    /\ f1.influence_score[1] * f2.influence_score[2]
         = f2.influence_score[1] * f1.influence_score[2]
    /\ f1.confidence = f2.confidence
    /\ f1.category = f2.category

\* _compare_context_factors: the four lists, as sets (their order is the
\* iteration order of a set of strings)
CompareContextFactors(factors1, factors2) ==
    LET all_keys == Keys(factors1) \cup Keys(factors2)
    IN  [ added |->
              { [ factor |-> k, new_value |-> Get(factors2, k) ] :
                  k \in { x \in all_keys : x \notin Keys(factors1) } },
          removed |->
              { [ factor |-> k, old_value |-> Get(factors1, k) ] :
                  k \in { x \in all_keys : /\ x \in Keys(factors1)
                                           /\ x \notin Keys(factors2) } },
          modified |->
              { [ factor |-> k, old_value |-> Get(factors1, k),
                  new_value |-> Get(factors2, k) ] :
                  k \in { x \in all_keys :
                            /\ x \in Keys(factors1)
                            /\ x \in Keys(factors2)
                            /\ ~FactorsEqual(Get(factors1, x),
                                             Get(factors2, x)) } },
          unchanged |->
              { k \in all_keys :
                  /\ k \in Keys(factors1)
                  /\ k \in Keys(factors2)
                  /\ FactorsEqual(Get(factors1, k), Get(factors2, k)) } ]

\* _compare_reasoning_steps
CompareReasoningSteps(steps1, steps2) ==
    LET In(step, list) == \E i \in 1..Len(list) : list[i] = step
    IN  [ added |-> SelectSeq(steps2, LAMBDA step : ~In(step, steps1)),
          removed |-> SelectSeq(steps1, LAMBDA step : ~In(step, steps2)),
          common |-> SelectSeq(steps1, LAMBDA step : In(step, steps2)) ]

\* _compare_metadata: both metadata dicts have the keys generate_explanation
\* writes, so only the from/to branch applies
CompareMetadata(metadata1, metadata2) ==
    { << key, [ from |-> metadata1[key], to |-> metadata2[key] ] >> :
        key \in { k \in DOMAIN metadata1 : metadata1[k] # metadata2[k] } }

\* compare_explanations
CompareExplanations(exps, explanation_id1, explanation_id2) ==
    LET exp1 == GetExplanation(exps, explanation_id1)
        exp2 == GetExplanation(exps, explanation_id2)
    IN  IF exp1 = <<>> \/ exp2 = <<>>
        THEN [ raised |-> "ValueError", value |-> <<>> ]
        ELSE [ raised |-> "",
               value |-> <<
                 [ confidence_diff |-> exp2[1].confidence - exp1[1].confidence,
                   context_changes |->
                       CompareContextFactors(exp1[1].context_influence,
                                             exp2[1].context_influence),
                   reasoning_changes |->
                       CompareReasoningSteps(exp1[1].reasoning_steps,
                                             exp2[1].reasoning_steps),
                   metadata_changes |->
                       CompareMetadata(exp1[1].metadata, exp2[1].metadata),
                   timestamp_diff |->
                       exp2[1].timestamp - exp1[1].timestamp ] >> ]

\* what visualize_explanation and summarize_explanation return: a fixed
\* message, or the rendering of an explanation by the named renderer
NoRendering == [ message |-> "", renderer |-> "", of |-> <<>> ]

\* visualize_explanation
VisualizeExplanation_NoCheck(exps, decision_id, format) ==
    [ message |-> "",
      renderer |-> IF format = "json" THEN "_generate_json_visualization"
                   ELSE "_generate_text_visualization",
      of |-> GetExplanation(exps, decision_id) ]

VisualizeExplanation(exps, decision_id, format) ==
    LET explanation == GetExplanation(exps, decision_id)
    IN  IF explanation = <<>>
        THEN [ message |-> "Explanation not found.", renderer |-> "",
               of |-> <<>> ]
        ELSE [ message |-> "",
               renderer |-> IF format = "json"
                            THEN "_generate_json_visualization"
                            ELSE "_generate_text_visualization",
               of |-> explanation ]

\* summarize_explanation
SummarizeExplanation(exps, explanation_id, format) ==
    LET explanation == GetExplanation(exps, explanation_id)
    IN  IF explanation = <<>>
        THEN [ message |-> "Explanation not found", renderer |-> "",
               of |-> <<>> ]
        ELSE [ message |-> "",
               renderer |-> IF format = "short"
                            THEN "_generate_short_summary"
                            ELSE IF format = "medium"
                            THEN "_generate_medium_summary"
                            ELSE "_generate_long_summary",
               of |-> explanation ]

NoChanges == [ added |-> {}, removed |-> {}, modified |-> {}, unchanged |-> {} ]

NoExplCall ==
    [ op |-> "init", decision_id |-> <<>>, decision_id2 |-> <<>>,
      context |-> {}, context2 |-> {}, format |-> "",
      thought_chain |-> <<>>, confidence |-> 0, raised |-> "",
      explanation |-> <<>>, influence |-> {},
      analysis |-> [ total_decisions |-> 0, average_confidence |-> <<0, 1>> ],
      changes |-> NoChanges, comparison |-> <<>>, rendering |-> NoRendering ]

generate_explanation(decision, context, thought_chain, confidence) ==
    /\ genCalls < MaxGenCalls
    /\ \E t1 \in ClockReads : \E t2 \in { t \in {t1, t1 + 1} : t <= MaxClock } :
         LET reasoning_steps ==
                 [ i \in 1..Len(thought_chain) |-> thought_chain[i].content ]
             built == NewExplanation(
                 [ decision_id |-> << "exp_", FormatSeconds(t1) >>,
                   reasoning_steps |-> reasoning_steps,
                   evidence |-> CollectEvidence(context, thought_chain),
                   confidence |-> confidence,
                   metadata |->
                       [ context_size |-> Cardinality(context),
                         chain_length |-> Len(thought_chain),
                         decision_type |-> InferDecisionType(decision) ],
                   timestamp |-> t2,
                   context_influence |-> AnalyzeContextInfluence(context) ])
         IN  /\ now' = t2
             /\ explanations' =
                  IF built.raised = "" THEN
                      StoreExplanation(explanations, built.value[1])
                  ELSE explanations
             /\ explCall' = [ NoExplCall EXCEPT
                                !.op = "generate_explanation",
                                !.context = context,
                                !.thought_chain = thought_chain,
                                !.confidence = confidence,
                                !.raised = built.raised,
                                !.explanation = built.value ]
    /\ genCalls' = genCalls + 1
    /\ UNCHANGED <<beliefVars, thoughtVars, moreVars>>

get_explanation(decision_id) ==
    /\ explCall' = [ NoExplCall EXCEPT
                       !.op = "get_explanation",
                       !.decision_id = << decision_id >>,
                       !.explanation = GetExplanation(explanations,
                                                      decision_id) ]
    /\ UNCHANGED <<explanations, genCalls, now, beliefVars, thoughtVars, moreVars>>

analyze_context_influence(context) ==
    /\ explCall' = [ NoExplCall EXCEPT
                       !.op = "_analyze_context_influence",
                       !.context = context,
                       !.influence = AnalyzeContextInfluence(context) ]
    /\ UNCHANGED <<explanations, genCalls, now, beliefVars, thoughtVars, moreVars>>

get_historical_analysis ==
    /\ explCall' = [ NoExplCall EXCEPT
                       !.op = "get_historical_analysis",
                       !.analysis = GetHistoricalAnalysis(explanations) ]
    /\ UNCHANGED <<explanations, genCalls, now, beliefVars, thoughtVars, moreVars>>

compare_context_factors(context1, context2) ==
    /\ explCall' = [ NoExplCall EXCEPT
                       !.op = "_compare_context_factors",
                       !.context = context1,
                       !.context2 = context2,
                       !.changes = CompareContextFactors(
                                       AnalyzeContextInfluence(context1),
                                       AnalyzeContextInfluence(context2)) ]
    /\ UNCHANGED <<explanations, genCalls, now, beliefVars, thoughtVars, moreVars>>

compare_explanations(explanation_id1, explanation_id2) ==
    LET result == CompareExplanations(explanations, explanation_id1,
                                      explanation_id2)
    IN  /\ explCall' = [ NoExplCall EXCEPT
                           !.op = "compare_explanations",
                           !.decision_id = << explanation_id1 >>,
                           !.decision_id2 = << explanation_id2 >>,
                           !.raised = result.raised,
                           !.comparison = result.value ]
        /\ UNCHANGED <<explanations, genCalls, now, beliefVars, thoughtVars, moreVars>>

visualize_explanation(decision_id, format) ==
    /\ explCall' = [ NoExplCall EXCEPT
                       !.op = "visualize_explanation",
                       !.decision_id = << decision_id >>,
                       !.format = format,
                       !.rendering = VisualizeExplanation(explanations,
                                                          decision_id,
                                                          format) ]
    /\ UNCHANGED <<explanations, genCalls, now, beliefVars, thoughtVars, moreVars>>

summarize_explanation(explanation_id, format) ==
    /\ explCall' = [ NoExplCall EXCEPT
                       !.op = "summarize_explanation",
                       !.decision_id = << explanation_id >>,
                       !.format = format,
                       !.rendering = SummarizeExplanation(explanations,
                                                          explanation_id,
                                                          format) ]
    /\ UNCHANGED <<explanations, genCalls, now, beliefVars, thoughtVars, moreVars>>

\* every dict over ContextKeyNames with values in ContextValues
Contexts ==
    UNION { { { << k, f[k] >> : k \in ks } : f \in [ ks -> ContextValues ] } :
            ks \in SUBSET ContextKeyNames }

\* small contexts for generate_explanation
SmallContexts == { c \in Contexts : Cardinality(c) <= 1 }

\* the ids a caller can ask for: ids generate_explanation can form, and one
\* it never forms
DecisionIdArgs ==
    { << "exp_", FormatSeconds(t) >> : t \in 0..MaxClock }
      \cup { << "nonexistent_id" >> }

GenerateExplanation ==
    \E d \in Decisions, c \in SmallContexts, ch \in ExplanationChains,
       conf \in ExplanationConfidences :
        generate_explanation(d, c, ch, conf)

GetExplanationCall == \E id \in DecisionIdArgs : get_explanation(id)

AnalyzeContextInfluenceCall ==
    \E c \in Contexts : analyze_context_influence(c)

\* the pairs of contexts compared: dicts over two keys with str or int values
ComparedContexts ==
    { c \in Contexts :
        /\ Keys(c) \subseteq { <<"a">>, <<"b">> }
        /\ \A p \in c : p[2].type \in { "str", "int" } }

VisualizeFormats == { "json", "text" }
SummaryFormats == { "short", "medium", "long" }

ExplNext ==
    \/ GenerateExplanation
    \/ GetExplanationCall
    \/ AnalyzeContextInfluenceCall
    \/ get_historical_analysis
    \/ \E c1 \in ComparedContexts, c2 \in ComparedContexts :
         compare_context_factors(c1, c2)
    \/ \E id1 \in DecisionIdArgs, id2 \in DecisionIdArgs :
         compare_explanations(id1, id2)
    \/ \E id \in DecisionIdArgs, f \in VisualizeFormats :
         visualize_explanation(id, f)
    \/ \E id \in DecisionIdArgs, f \in SummaryFormats :
         summarize_explanation(id, f)

\* ------------------------------------------------------------------------
\* UncertaintyHandler (core/uncertainty_handler.py)
\* ------------------------------------------------------------------------
\* Floats are exact fractions <<numerator, denominator>> in lowest terms,
\* denominator > 0.
RECURSIVE Gcd(_, _)
Gcd(a, b) == IF b = 0 THEN a ELSE Gcd(b, a % b)

Frac(n, d) ==
    LET g == Gcd(IF n < 0 THEN -n ELSE n, d) IN << n \div g, d \div g >>

FAdd(x, y) == Frac(x[1] * y[2] + y[1] * x[2], x[2] * y[2])
FSub(x, y) == Frac(x[1] * y[2] - y[1] * x[2], x[2] * y[2])
FMul(x, y) == Frac(x[1] * y[1], x[2] * y[2])
FLess(x, y) == x[1] * y[2] < y[1] * x[2]
FMin(x, y) == IF FLess(y, x) THEN y ELSE x
FMax(x, y) == IF FLess(x, y) THEN y ELSE x
Zero == << 0, 1 >>
One == << 1, 1 >>

\* np.log2 at the probabilities of the model, negated: -log2(p)
NegLog2(p) ==
    CASE p = << 1, 4 >> -> 2
      [] p = << 1, 2 >> -> 1
      [] p = << 1, 1 >> -> 0

\* A float that lies an infinitesimal amount below an exact fraction:
\* [value, below] stands for value - below * d, with d = 1e-10 / ln 2 (the
\* first-order effect of the 1e-10 added inside log2).
Exact(x) == [ value |-> x, below |-> 0 ]

RECURSIVE FSum(_)
FSum(xs) == IF xs = <<>> THEN Zero ELSE FAdd(Head(xs), FSum(Tail(xs)))

RECURSIVE FSeqMax(_)
FSeqMax(xs) ==
    IF Len(xs) = 1 THEN xs[1] ELSE FMax(Head(xs), FSeqMax(Tail(xs)))

RECURSIVE FSeqMin(_)
FSeqMin(xs) ==
    IF Len(xs) = 1 THEN xs[1] ELSE FMin(Head(xs), FSeqMin(Tail(xs)))

\* float(-np.sum(preds * np.log2(preds + 1e-10))): p * log2(p + 1e-10) is
\* p * log2(p) + d for p > 0 and 0 for p = 0
Entropy(preds) ==
    [ value |-> FSum([ i \in 1..Len(preds) |->
                         IF preds[i] = Zero THEN Zero
                         ELSE FMul(preds[i], << NegLog2(preds[i]), 1 >>) ]),
      below |-> Len(SelectSeq(preds, LAMBDA q : q # Zero)) ]

\* _calculate_metrics
CalculateMetrics(predictions) ==
    LET n == Len(predictions)
        mean == FMul(FSum(predictions), << 1, n >>)
    IN  [ confidence_score |-> mean,
          entropy |-> Entropy(predictions),
          variance |->
              FMul(FSum([ i \in 1..n |->
                            FMul(FSub(predictions[i], mean),
                                 FSub(predictions[i], mean)) ]),
                   << 1, n >>),
          prediction_spread |->
              FSub(FSeqMax(predictions), FSeqMin(predictions)) ]

\* min(1.0, x) and max(0.0, x) on a float lying `below` under `value`
MinOne(x) ==
    IF FLess(x.value, One) \/ (x.value = One /\ x.below > 0) THEN x
    ELSE Exact(One)

MaxZero(x) ==
    IF FLess(x.value, Zero) \/ (x.value = Zero /\ x.below > 0)
    THEN Exact(Zero)
    ELSE x

\* the weighted sum of _compute_uncertainty_score; only the entropy term
\* carries an infinitesimal part (in units of 0.2 * d)
WeightedScore(metrics) ==
    LET entropy_term == MinOne(metrics.entropy)
    IN  [ value |->
              FAdd(FAdd(FMul(<< 2, 5 >>,
                             FSub(One, metrics.confidence_score)),
                        FMul(<< 1, 5 >>, entropy_term.value)),
                   FAdd(FMul(<< 1, 5 >>,
                             FMin(One, FMul(metrics.variance, << 2, 1 >>))),
                        FMul(<< 1, 5 >>, metrics.prediction_spread))),
          below |-> entropy_term.below ]

\* _compute_uncertainty_score
ComputeUncertaintyScore_NoClamp(metrics) == WeightedScore(metrics)

ComputeUncertaintyScore(metrics) == MinOne(MaxZero(WeightedScore(metrics)))

\* _analyze_context_uncertainty; a timestamp is either not an ISO string or
\* lies a number of hours before datetime.now()
AnalyzeContextUncertainty(context) ==
    IF context = {} THEN { << "missing_context", One >> }
    ELSE { << "explicit_confidence",
              FSub(One, << Get(context, "confidence"), 100 >>) >> :
             k \in Keys(context) \cap { "confidence" } }
         \cup
         { << IF Get(context, "timestamp").iso
              THEN "temporal_uncertainty" ELSE "invalid_timestamp",
              IF Get(context, "timestamp").iso
              THEN FMin(One, Frac(Get(context, "timestamp").hours_ago, 24))
              ELSE One >> :
             k \in Keys(context) \cap { "timestamp" } }

\* evaluate_uncertainty: the pair (score, details)
EvaluateUncertainty(threshold, predictions, context) ==
    IF predictions = <<>>
    THEN [ score |-> Exact(One),
           details |-> [ error |-> "No predictions available" ] ]
    ELSE LET metrics == CalculateMetrics(predictions)
         IN  [ score |-> ComputeUncertaintyScore(metrics),
               details |->
                   [ metrics |->
                         [ confidence |-> metrics.confidence_score,
                           entropy |-> metrics.entropy,
                           variance |-> metrics.variance,
                           prediction_spread |-> metrics.prediction_spread ],
                     context_factors |-> AnalyzeContextUncertainty(context),
                     threshold |-> threshold ] ]

NoUncertaintyCall ==
    [ op |-> "init", predictions |-> <<>>, context |-> {},
      score |-> Exact(Zero), details |-> [ error |-> "" ] ]

evaluate_uncertainty(predictions, context) ==
    LET result == EvaluateUncertainty(handler_threshold, predictions, context)
    IN  /\ uncertaintyCall' = [ op |-> "evaluate_uncertainty",
                                predictions |-> predictions,
                                context |-> context,
                                score |-> result.score,
                                details |-> result.details ]
        /\ UNCHANGED <<handler_threshold, notUncertaintyVars>>

\* prediction lists of up to MaxPredictions probabilities
PredictionLists == UNION { [ 1..n -> Probabilities ] : n \in 0..MaxPredictions }

UncertaintyNext ==
    \E ps \in PredictionLists, c \in UncertaintyContexts :
        evaluate_uncertainty(ps, c)

\* ------------------------------------------------------------------------
\* CacheManager (utils/cache_manager.py)
\* ------------------------------------------------------------------------
\* self.cache is a dict in insertion order: a sequence of entries with
\* distinct keys.  Timestamps are clock ticks; their isoformat() strings
\* compare as the ticks do.
CacheIndex(c, key) ==
    IF \E i \in 1..Len(c) : c[i].key = key
    THEN CHOOSE i \in 1..Len(c) : c[i].key = key
    ELSE 0

\* self.cache[key] = entry: in place for a key already there, else last
CachePut(c, entry) ==
    LET i == CacheIndex(c, entry.key)
    IN  IF i = 0 THEN Append(c, entry) ELSE [ c EXCEPT ![i] = entry ]

\* self.cache.pop(key, None)
CachePop(c, key) == SelectSeq(c, LAMBDA e : e.key # key)

\* _is_valid, with t what datetime.now() returns
IsValid_Inclusive(entry, t) == t - entry.timestamp <= entry.ttl

IsValid(entry, t) == t - entry.timestamp < entry.ttl

\* sorted(..., key=timestamp, reverse=True): stable, so entries with the
\* same timestamp keep their order
RECURSIVE SortByTimestampDesc(_)
SortByTimestampDesc(es) ==
    IF es = <<>> THEN <<>>
    ELSE LET newest == CHOOSE i \in 1..Len(es) :
                         /\ \A j \in 1..Len(es) :
                              es[j].timestamp <= es[i].timestamp
                         /\ \A j \in 1..(i - 1) :
                              es[j].timestamp < es[i].timestamp
         IN  << es[newest] >>
               \o SortByTimestampDesc(SubSeq(es, 1, newest - 1)
                                        \o SubSeq(es, newest + 1, Len(es)))

\* _cleanup
Cleanup_NoTrim(c, max_size, t) == SelectSeq(c, LAMBDA e : IsValid(e, t))

Cleanup(c, max_size, t) ==
    LET valid_entries == SelectSeq(c, LAMBDA e : IsValid(e, t))
    IN  IF Len(valid_entries) > max_size
        THEN SubSeq(SortByTimestampDesc(valid_entries), 1, max_size)
        ELSE valid_entries

\* json.dump(self.cache, f): the text of cache.json, as the list of
\* <<key, <<value, timestamp, ttl>>>> members of the JSON object
JsonDump(c) ==
    [ i \in 1..Len(c) |-> << c[i].key,
                             << c[i].value, c[i].timestamp, c[i].ttl >> >> ]

\* json.load(f)
JsonLoad(text) ==
    [ i \in 1..Len(text) |-> [ key |-> text[i][1],
                               value |-> text[i][2][1],
                               timestamp |-> text[i][2][2],
                               ttl |-> text[i][2][3] ] ]

\* _load_cache: no file (cache_file = <<>>) leaves the cache empty
LoadCache_NoCleanup(file, max_size, t) ==
    IF file = <<>> THEN <<>> ELSE JsonLoad(file[1])

LoadCache(file, max_size, t) ==
    IF file = <<>> THEN <<>> ELSE Cleanup(JsonLoad(file[1]), max_size, t)

\* ttl or self.ttl
TtlOr(ttl, default) ==
    IF ttl = <<>> \/ ttl[1] = 0 THEN default ELSE ttl[1]

\* the in-memory effect of set
CacheSet(c, max_size, default_ttl, key, value, ttl, t) ==
    LET stored == CachePut(c, [ key |-> key, value |-> value,
                                timestamp |-> t,
                                ttl |-> TtlOr(ttl, default_ttl) ])
    IN  IF Len(stored) > max_size THEN Cleanup(stored, max_size, t)
        ELSE stored

\* datetime.now(): the cache clock does not go back and is read once per call
CacheClockReads == { t \in { cache_clock, cache_clock + 1 } : t <= MaxCacheClock }

NoCacheCall ==
    [ op |-> "init", key |-> "", value |-> "", ttl |-> <<>>,
      result |-> <<>>, removed |-> FALSE ]

\* CacheManager(cache_dir, max_size, ttl) on the directory in use
new_cache_manager(max_size, ttl) ==
    /\ \E t \in CacheClockReads :
         /\ cache_clock' = t
         /\ cache' = LoadCache(cache_file, max_size, t)
    /\ cache_max_size' = max_size
    /\ cache_ttl' = ttl
    /\ cacheCall' = [ NoCacheCall EXCEPT !.op = "__init__" ]
    /\ UNCHANGED <<cache_file, last_set, notCacheVars>>

cache_get(key) ==
    /\ \E t \in CacheClockReads :
         LET i == CacheIndex(cache, key)
         IN  /\ cache_clock' = t
             /\ IF i # 0 /\ ~IsValid(cache[i], t)
                THEN /\ cache' = CachePop(cache, key)
                     /\ cache_file' = << JsonDump(cache') >>
                ELSE UNCHANGED <<cache, cache_file>>
             /\ cacheCall' = [ NoCacheCall EXCEPT
                                 !.op = "get",
                                 !.key = key,
                                 !.result =
                                     IF i # 0 /\ IsValid(cache[i], t)
                                     THEN << cache[i].value >> ELSE <<>>,
                                 !.removed = (i # 0 /\ ~IsValid(cache[i], t)) ]
    /\ UNCHANGED <<cache_max_size, cache_ttl, last_set, notCacheVars>>

cache_set(key, value, ttl) ==
    /\ \E t \in CacheClockReads :
         /\ cache_clock' = t
         /\ cache' = CacheSet(cache, cache_max_size, cache_ttl,
                              key, value, ttl, t)
         /\ last_set' = [ last_set EXCEPT
                            ![key] = << [ value |-> value, timestamp |-> t,
                                          ttl |-> TtlOr(ttl, cache_ttl) ] >> ]
    /\ cache_file' = << JsonDump(cache') >>
    /\ cacheCall' = [ NoCacheCall EXCEPT
                        !.op = "set", !.key = key, !.value = value,
                        !.ttl = ttl ]
    /\ UNCHANGED <<cache_max_size, cache_ttl, notCacheVars>>

CacheNext ==
    \/ \E m \in CacheMaxSizes, ttl \in CacheTtls : new_cache_manager(m, ttl)
    \/ \E k \in CacheKeys : cache_get(k)
    \/ \E k \in CacheKeys, v \in CacheValues, ttl \in CacheTtlArgs :
         cache_set(k, v, ttl)

\* ------------------------------------------------------------------------
\* RateLimiter (utils/rate_limiter.py), called from several threads
\* ------------------------------------------------------------------------
\* self.requests maps a user to << list >>, or to <<>> for a user that is
\* not a key of the dict.  Each thread runs one call at a time, one
\* statement per step; rate_thread[t].pc is the statement it is at.
\* datetime.now(): the clock does not go back
RateClockReads == { t \in { rate_clock, rate_clock + 1 } : t <= MaxRateClock }

\* [req for req in requests if req > now - timedelta(minutes=1)]
RecentRequests(reqs, t) == SelectSeq(reqs, LAMBDA req : req > t - Minute)

\* with self.lock: the lock can be taken when no thread holds it
LockFree_Always(lock) == TRUE

LockFree(lock) == lock = NoThread

IdleThread ==
    [ pc |-> "idle", op |-> "", user |-> "", now |-> 0, list |-> <<>> ]

NoRateCall ==
    [ thread |-> NoThread, op |-> "init", user |-> "", allowed |-> FALSE,
      remaining |-> 0, after_refusal |-> FALSE ]

\* a thread calls check_limit or get_remaining_requests and reaches `with`
rate_call(t, op, user) ==
    /\ rate_thread[t].pc = "idle"
    /\ rate_thread' = [ rate_thread EXCEPT
                          ![t] = [ IdleThread EXCEPT !.pc = "acquire",
                                                     !.op = op,
                                                     !.user = user ] ]
    /\ UNCHANGED <<rate_limit, burst_limit, requests, rate_lock, rate_clock,
                   accepted, rateCall, notRateVars>>

\* with self.lock:
rate_acquire(t) ==
    /\ rate_thread[t].pc = "acquire"
    /\ LockFree(rate_lock)
    /\ rate_lock' = t
    /\ rate_thread' = [ rate_thread EXCEPT ![t].pc = "now" ]
    /\ UNCHANGED <<rate_limit, burst_limit, requests, rate_clock, accepted,
                   rateCall, notRateVars>>

\* now = datetime.now()
rate_now(t) ==
    /\ rate_thread[t].pc = "now"
    /\ \E time \in RateClockReads :
         /\ rate_clock' = time
         /\ rate_thread' = [ rate_thread EXCEPT ![t].now = time,
                                                ![t].pc = "cleanup_read" ]
    /\ UNCHANGED <<rate_limit, burst_limit, requests, rate_lock, accepted,
                   rateCall, notRateVars>>

\* _cleanup_old_requests, the list comprehension
rate_cleanup_read(t) ==
    LET me == rate_thread[t]
    IN  /\ me.pc = "cleanup_read"
        /\ rate_thread' =
             IF requests[me.user] # <<>>
             THEN [ rate_thread EXCEPT
                      ![t].list = RecentRequests(requests[me.user][1], me.now),
                      ![t].pc = "cleanup_write" ]
             ELSE [ rate_thread EXCEPT ![t].pc = "check_user" ]
        /\ UNCHANGED <<rate_limit, burst_limit, requests, rate_lock,
                       rate_clock, accepted, rateCall, notRateVars>>

\* _cleanup_old_requests, the assignment self.requests[user_id] = [...]
rate_cleanup_write(t) ==
    LET me == rate_thread[t]
    IN  /\ me.pc = "cleanup_write"
        /\ requests' = [ requests EXCEPT ![me.user] = << me.list >> ]
        /\ rate_thread' = [ rate_thread EXCEPT ![t].pc = "check_user" ]
        /\ UNCHANGED <<rate_limit, burst_limit, rate_lock, rate_clock,
                       accepted, rateCall, notRateVars>>

\* the call that returned last was a refused check_limit of this user
AfterRefusal(user) ==
    /\ rateCall.op = "check_limit"
    /\ rateCall.user = user
    /\ ~rateCall.allowed

\* leaving the with block: the call returns and the lock is released
RateReturn(t, allowed, remaining) ==
    /\ rate_lock' = NoThread
    /\ rateCall' = [ thread |-> t, op |-> rate_thread[t].op,
                     user |-> rate_thread[t].user, allowed |-> allowed,
                     remaining |-> remaining,
                     after_refusal |-> AfterRefusal(rate_thread[t].user) ]
    /\ rate_thread' = [ rate_thread EXCEPT ![t] = IdleThread ]

\* check_limit: if user_id not in self.requests, and the burst check
check_limit_burst(t) ==
    LET me == rate_thread[t]
        reqs == IF requests[me.user] = <<>> THEN <<>>
                ELSE requests[me.user][1]
    IN  /\ me.pc = "check_user"
        /\ me.op = "check_limit"
        /\ requests' = [ requests EXCEPT ![me.user] = << reqs >> ]
        /\ IF Len(reqs) >= burst_limit
           THEN RateReturn(t, FALSE, 0)
           ELSE /\ rate_thread' = [ rate_thread EXCEPT ![t].pc = "check_rate" ]
                /\ UNCHANGED <<rate_lock, rateCall>>
        /\ UNCHANGED <<rate_limit, burst_limit, rate_clock, accepted,
                       notRateVars>>

\* check_limit: the rate check
check_limit_rate(t) ==
    LET me == rate_thread[t]
    IN  /\ me.pc = "check_rate"
        /\ IF Len(RecentRequests(requests[me.user][1], me.now)) >= rate_limit
           THEN RateReturn(t, FALSE, 0)
           ELSE /\ rate_thread' = [ rate_thread EXCEPT ![t].pc = "append" ]
                /\ UNCHANGED <<rate_lock, rateCall>>
        /\ UNCHANGED <<rate_limit, burst_limit, requests, rate_clock,
                       accepted, notRateVars>>

\* check_limit: self.requests[user_id].append(now); return True
check_limit_append(t) ==
    LET me == rate_thread[t]
    IN  /\ me.pc = "append"
        /\ Len(accepted) < MaxAccepted
        /\ requests' = [ requests EXCEPT
                           ![me.user] = << Append(requests[me.user][1],
                                                  me.now) >> ]
        /\ accepted' = Append(accepted, [ user |-> me.user, time |-> me.now,
                                          thread |-> t ])
        /\ RateReturn(t, TRUE, 0)
        /\ UNCHANGED <<rate_limit, burst_limit, rate_clock, notRateVars>>

\* get_remaining_requests after the cleanup
get_remaining_return(t) ==
    LET me == rate_thread[t]
    IN  /\ me.pc = "check_user"
        /\ me.op = "get_remaining_requests"
        /\ IF requests[me.user] = <<>>
           THEN RateReturn(t, FALSE, rate_limit)
           ELSE LET recent == RecentRequests(requests[me.user][1], me.now)
                    left == rate_limit - Len(recent)
                IN  RateReturn(t, FALSE, IF left > 0 THEN left ELSE 0)
        /\ UNCHANGED <<rate_limit, burst_limit, requests, rate_clock,
                       accepted, notRateVars>>

RateNext ==
    \/ \E t \in RateThreads, u \in ThreadedUsers,
          op \in { "check_limit", "get_remaining_requests" } :
            rate_call(t, op, u)
    \/ \E t \in RateThreads : rate_acquire(t)
    \/ \E t \in RateThreads : rate_now(t)
    \/ \E t \in RateThreads : rate_cleanup_read(t)
    \/ \E t \in RateThreads : rate_cleanup_write(t)
    \/ \E t \in RateThreads : check_limit_burst(t)
    \/ \E t \in RateThreads : check_limit_rate(t)
    \/ \E t \in RateThreads : check_limit_append(t)
    \/ \E t \in RateThreads : get_remaining_return(t)

\* ------------------------------------------------------------------------
\* RateLimiter called from one thread: each call runs from taking the lock
\* to releasing it in one step
\* ------------------------------------------------------------------------
\* _cleanup_old_requests
CleanupOldRequests_Never(reqs, user, t) == reqs

CleanupOldRequests(reqs, user, t) ==
    IF reqs[user] # <<>>
    THEN [ reqs EXCEPT ![user] = << RecentRequests(reqs[user][1], t) >> ]
    ELSE reqs

\* check_limit: what it returns and self.requests afterwards
CheckLimit_NoRateCheck(reqs, rate, burst, user, t) ==
    LET cleaned == CleanupOldRequests(reqs, user, t)
        list == IF cleaned[user] = <<>> THEN <<>> ELSE cleaned[user][1]
        present == [ cleaned EXCEPT ![user] = << list >> ]
    IN  IF Len(list) >= burst
        THEN [ allowed |-> FALSE, requests |-> present ]
        ELSE [ allowed |-> TRUE,
               requests |-> [ present EXCEPT
                                ![user] = << Append(list, t) >> ] ]

CheckLimit(reqs, rate, burst, user, t) ==
    LET cleaned == CleanupOldRequests(reqs, user, t)
        list == IF cleaned[user] = <<>> THEN <<>> ELSE cleaned[user][1]
        present == [ cleaned EXCEPT ![user] = << list >> ]
    IN  IF Len(list) >= burst
        THEN [ allowed |-> FALSE, requests |-> present ]
        ELSE IF Len(RecentRequests(list, t)) >= rate
        THEN [ allowed |-> FALSE, requests |-> present ]
        ELSE [ allowed |-> TRUE,
               requests |-> [ present EXCEPT
                                ![user] = << Append(list, t) >> ] ]

\* get_remaining_requests: what it returns and self.requests afterwards
GetRemainingRequests(reqs, rate, user, t) ==
    LET cleaned == CleanupOldRequests(reqs, user, t)
    IN  IF cleaned[user] = <<>>
        THEN [ remaining |-> rate, requests |-> cleaned ]
        ELSE LET left == rate - Len(RecentRequests(cleaned[user][1], t))
             IN  [ remaining |-> IF left > 0 THEN left ELSE 0,
                   requests |-> cleaned ]

\* datetime.now() of a call made any time after the one before
LaterClockReads == rate_clock..MaxRateClock

check_limit(user) ==
    /\ \E t \in LaterClockReads :
         LET out == CheckLimit(requests, rate_limit, burst_limit, user, t)
         IN  /\ out.allowed => Len(accepted) < MaxAccepted
             /\ rate_clock' = t
             /\ requests' = out.requests
             /\ accepted' = IF out.allowed
                            THEN Append(accepted, [ user |-> user, time |-> t,
                                                    thread |-> NoThread ])
                            ELSE accepted
             /\ rateCall' = [ thread |-> NoThread, op |-> "check_limit",
                              user |-> user, allowed |-> out.allowed,
                              remaining |-> 0,
                              after_refusal |-> AfterRefusal(user) ]
    /\ UNCHANGED <<rate_limit, burst_limit, rate_lock, rate_thread,
                   notRateVars>>

get_remaining_requests(user) ==
    /\ \E t \in LaterClockReads :
         LET out == GetRemainingRequests(requests, rate_limit, user, t)
         IN  /\ rate_clock' = t
             /\ requests' = out.requests
             /\ rateCall' = [ thread |-> NoThread,
                              op |-> "get_remaining_requests",
                              user |-> user, allowed |-> FALSE,
                              remaining |-> out.remaining,
                              after_refusal |-> AfterRefusal(user) ]
    /\ UNCHANGED <<rate_limit, burst_limit, rate_lock, rate_thread, accepted,
                   notRateVars>>

LimiterNext ==
    \/ \E u \in RateUsers : check_limit(u)
    \/ \E u \in RateUsers : get_remaining_requests(u)

\* ------------------------------------------------------------------------
\* PerformanceProfiler (profiling/performance_profiler.py)
\* ------------------------------------------------------------------------
\* self.profiles is a dict in insertion order: a sequence of records with
\* distinct names.  A cProfile.Profile object is the number it was created
\* as; stats, end_time and duration are <<>> until stop_profiling sets them.
ProfileIndex(ps, name) ==
    IF \E i \in 1..Len(ps) : ps[i].name = name
    THEN CHOOSE i \in 1..Len(ps) : ps[i].name = name
    ELSE 0

\* the first profile of the dict whose stats is None, 0 if there is none
FirstOpenProfile(ps) ==
    IF \E i \in 1..Len(ps) : ps[i].stats = <<>>
    THEN CHOOSE i \in 1..Len(ps) :
           /\ ps[i].stats = <<>>
           /\ \A j \in 1..(i - 1) : ps[j].stats # <<>>
    ELSE 0

\* _format_stats: a dict (a set of <<key, value>> pairs); the three call
\* counters come from the Profile object, here its number
FormatStats(profile) ==
    { << "duration", profile.duration[1] >>,
      << "stats", profile.stats[1] >>,
      << "timestamp", profile.start_time >> }

\* start_profiling: what it raises and the fields it leaves
StartProfiling(ps, current, created, name, t) ==
    IF current # <<>>
    THEN [ raised |-> "RuntimeError", profiles |-> ps, current |-> current,
           created |-> created ]
    ELSE LET new == [ name |-> name, start_time |-> t, stats |-> <<>>,
                      end_time |-> <<>>, duration |-> <<>> ]
             i == ProfileIndex(ps, name)
         IN  [ raised |-> "",
               profiles |-> IF i = 0 THEN Append(ps, new)
                            ELSE [ ps EXCEPT ![i] = new ],
               current |-> << created + 1 >>,
               created |-> created + 1 ]

\* stop_profiling: what it raises, returns and the profiles it leaves;
\* self.current_profile keeps its value
StopProfiling(ps, current, t) ==
    IF current = <<>>
    THEN [ raised |-> "RuntimeError", profiles |-> ps, result |-> <<>> ]
    ELSE LET i == FirstOpenProfile(ps)
         IN  IF i = 0
             THEN [ raised |-> "", profiles |-> ps, result |-> << {} >> ]
             ELSE LET done == [ ps[i] EXCEPT
                                  !.stats = current,
                                  !.end_time = << t >>,
                                  !.duration = << t - ps[i].start_time >> ]
                  IN  [ raised |-> "",
                        profiles |-> [ ps EXCEPT ![i] = done ],
                        result |-> << FormatStats(done) >> ]

\* get_profile
GetProfile(ps, name) ==
    LET i == ProfileIndex(ps, name)
    IN  IF i = 0 \/ ps[i].stats = <<>> THEN <<>>
        ELSE << FormatStats(ps[i]) >>

\* datetime.now() and time.time(): the clock does not go back
ProfilerClockReads ==
    { t \in { profiler_clock, profiler_clock + 1 } : t <= MaxProfilerClock }

NoProfilerCall ==
    [ op |-> "init", name |-> <<>>, raised |-> "", result |-> <<>>,
      returned |-> FALSE ]

start_profiling(name) ==
    /\ \E t \in ProfilerClockReads :
         LET r == StartProfiling(profiles, current_profile, profiles_created,
                                 name, t)
         IN  /\ profiler_clock' = t
             /\ profiles' = r.profiles
             /\ current_profile' = r.current
             /\ profiles_created' = r.created
             /\ session_open' = IF r.raised = "" THEN TRUE ELSE session_open
             /\ profilerCall' = [ NoProfilerCall EXCEPT
                                    !.op = "start_profiling",
                                    !.name = name,
                                    !.raised = r.raised ]
    /\ UNCHANGED notProfilerVars

stop_profiling ==
    /\ \E t \in ProfilerClockReads :
         LET r == StopProfiling(profiles, current_profile, t)
         IN  /\ profiler_clock' = t
             /\ profiles' = r.profiles
             /\ session_open' = IF r.raised = "" THEN FALSE ELSE session_open
             /\ profilerCall' = [ NoProfilerCall EXCEPT
                                    !.op = "stop_profiling",
                                    !.raised = r.raised,
                                    !.result = r.result ]
    /\ UNCHANGED <<current_profile, profiles_created, notProfilerVars>>

\* a call of a function decorated with profile: start_profiling under the
\* name <func>_<time.time()>, the function (which may raise), and
\* stop_profiling in the finally clause
profiled_call(func, fails) ==
    /\ \E t1 \in ProfilerClockReads :
       \E t2 \in { t \in { t1, t1 + 1 } : t <= MaxProfilerClock } :
         LET name == << func, t1 >>
             started == StartProfiling(profiles, current_profile,
                                       profiles_created, name, t1)
             stopped == StopProfiling(started.profiles, started.current, t2)
         IN  /\ profiles_created' = started.created
             /\ current_profile' = started.current
             /\ IF started.raised # ""
                THEN /\ profiler_clock' = t1
                     /\ profiles' = started.profiles
                     /\ session_open' = session_open
                     /\ profilerCall' = [ NoProfilerCall EXCEPT
                                            !.op = "profile",
                                            !.name = name,
                                            !.raised = started.raised ]
                ELSE /\ profiler_clock' = t2
                     /\ profiles' = stopped.profiles
                     /\ session_open' = FALSE
                     /\ profilerCall' = [ NoProfilerCall EXCEPT
                                            !.op = "profile",
                                            !.name = name,
                                            !.raised =
                                                IF fails THEN "Exception"
                                                ELSE "",
                                            !.returned = ~fails ]
    /\ UNCHANGED notProfilerVars

get_profile(name) ==
    /\ profilerCall' = [ NoProfilerCall EXCEPT
                           !.op = "get_profile",
                           !.name = name,
                           !.result = GetProfile(profiles, name) ]
    /\ UNCHANGED <<profiles, current_profile, profiles_created, session_open,
                   profiler_clock, notProfilerVars>>

ProfilerNext ==
    \/ \E n \in ProfileNames : start_profiling(n)
    \/ stop_profiling
    \/ \E f \in ProfiledFunctions, fails \in BOOLEAN : profiled_call(f, fails)
    \/ \E n \in ProfileNames : get_profile(n)

\* ------------------------------------------------------------------------
\* SystemMonitor (utils/monitoring.py): one caller and the monitoring threads
\* ------------------------------------------------------------------------
\* A collected SystemMetrics sample is the number it was collected as.
\* monitor_threads[t].pc is the statement of _monitor_loop thread t is at:
\* "unborn" before Thread.start(), "done" after the loop has ended.
UnbornThread == [ pc |-> "unborn", sample |-> 0 ]

LiveThreads == { t \in MonitorThreads :
                   monitor_threads[t].pc \notin { "unborn", "done" } }

\* turn flips at every call that returns, so that two equal calls in a row
\* are two values
NoMonitorCall ==
    [ op |-> "init", started |-> FALSE, result |-> <<>>, consumed |-> <<>>,
      turn |-> FALSE ]

MonitorReturn(op) ==
    [ NoMonitorCall EXCEPT !.op = op, !.turn = ~monitorCall.turn ]

\* where _monitor_loop continues after `except Exception`: the try is
\* inside the while, so at the loop condition
AfterException_Exit == "done"

AfterException == "while"

\* start()
monitor_start ==
    /\ caller = "idle"
    /\ IF is_running
       THEN /\ monitorCall' = MonitorReturn("start")
            /\ UNCHANGED <<is_running, monitoring_thread, monitor_threads>>
       ELSE \E t \in MonitorThreads :
              /\ monitor_threads[t].pc \in { "unborn", "done" }
              /\ \A u \in MonitorThreads :
                   monitor_threads[u].pc \in { "unborn", "done" } => t <= u
              /\ is_running' = TRUE
              /\ monitoring_thread' = << t >>
              /\ monitor_threads' =
                   [ monitor_threads EXCEPT ![t] = [ pc |-> "while",
                                                     sample |-> 0 ] ]
              /\ monitorCall' = [ MonitorReturn("start") EXCEPT
                                                       !.started = TRUE ]
    /\ UNCHANGED <<metrics_queue, samples_collected, last_sample,
                   failed_collections, caller, notMonitorVars>>

\* stop(): self.is_running = False, then join() if there is a thread
monitor_stop ==
    /\ caller = "idle"
    /\ is_running' = FALSE
    /\ IF monitoring_thread = <<>>
       THEN /\ monitorCall' = MonitorReturn("stop")
            /\ caller' = caller
       ELSE /\ caller' = "joining"
            /\ monitorCall' = monitorCall
    /\ UNCHANGED <<monitoring_thread, monitor_threads, metrics_queue,
                   samples_collected, last_sample, failed_collections,
                   notMonitorVars>>

\* stop(): join() returns once the thread has ended
monitor_stop_join ==
    /\ caller = "joining"
    /\ monitor_threads[monitoring_thread[1]].pc = "done"
    /\ caller' = "idle"
    /\ monitorCall' = MonitorReturn("stop")
    /\ UNCHANGED <<is_running, monitoring_thread, monitor_threads,
                   metrics_queue, samples_collected, last_sample,
                   failed_collections, notMonitorVars>>

\* get_latest_metrics(): Queue.get() takes the head of the FIFO queue
GetLatestMetrics(queue) ==
    IF queue = <<>> THEN [ result |-> <<>>, queue |-> queue ]
    ELSE [ result |-> << Head(queue) >>, queue |-> Tail(queue) ]

get_latest_metrics ==
    /\ caller = "idle"
    /\ metrics_queue' = GetLatestMetrics(metrics_queue).queue
    /\ monitorCall' = [ MonitorReturn("get_latest_metrics") EXCEPT
                          !.result = GetLatestMetrics(metrics_queue).result ]
    /\ UNCHANGED <<is_running, monitoring_thread, monitor_threads,
                   samples_collected, last_sample, failed_collections,
                   caller, notMonitorVars>>

\* get_average_metrics(num_samples): takes up to num_samples samples from
\* the head of the queue; the result averages the samples in `consumed`
get_average_metrics(num_samples) ==
    LET n == Min(num_samples, Len(metrics_queue))
    IN  /\ caller = "idle"
        /\ metrics_queue' = SubSeq(metrics_queue, n + 1, Len(metrics_queue))
        /\ monitorCall' = [ MonitorReturn("get_average_metrics") EXCEPT
                              !.consumed = SubSeq(metrics_queue, 1, n) ]
        /\ UNCHANGED <<is_running, monitoring_thread, monitor_threads,
                       samples_collected, last_sample, failed_collections,
                       caller, notMonitorVars>>

\* _monitor_loop: while self.is_running
monitor_while(t) ==
    /\ monitor_threads[t].pc = "while"
    /\ monitor_threads' =
         [ monitor_threads EXCEPT
             ![t].pc = IF is_running THEN "collect" ELSE "done" ]
    /\ UNCHANGED <<is_running, monitoring_thread, metrics_queue,
                   samples_collected, last_sample, failed_collections,
                   caller, monitorCall, notMonitorVars>>

\* _monitor_loop: metrics = self._collect_metrics() returns a sample
monitor_collect(t) ==
    /\ monitor_threads[t].pc = "collect"
    /\ samples_collected < MaxSamples
    /\ samples_collected' = samples_collected + 1
    /\ monitor_threads' =
         [ monitor_threads EXCEPT ![t] = [ pc |-> "put",
                                           sample |-> samples_collected + 1 ] ]
    /\ UNCHANGED <<is_running, monitoring_thread, metrics_queue, last_sample,
                   failed_collections, caller, monitorCall, notMonitorVars>>

\* _monitor_loop: self._collect_metrics() raises; the except clause logs
monitor_collect_fails(t) ==
    /\ monitor_threads[t].pc = "collect"
    /\ failed_collections' = Min(failed_collections + 1, MaxFailures)
    /\ monitor_threads' = [ monitor_threads EXCEPT ![t].pc = AfterException ]
    /\ UNCHANGED <<is_running, monitoring_thread, metrics_queue,
                   samples_collected, last_sample, caller, monitorCall,
                   notMonitorVars>>

\* _monitor_loop: self.metrics_queue.put(metrics)
monitor_put(t) ==
    /\ monitor_threads[t].pc = "put"
    /\ metrics_queue' = Append(metrics_queue, monitor_threads[t].sample)
    /\ last_sample' = << monitor_threads[t].sample >>
    /\ monitor_threads' = [ monitor_threads EXCEPT ![t].pc = "save" ]
    /\ UNCHANGED <<is_running, monitoring_thread, samples_collected,
                   failed_collections, caller, monitorCall, notMonitorVars>>

\* _monitor_loop: self._save_metrics(metrics), which returns or raises
\* (then the sleep is skipped)
monitor_save(t) ==
    /\ monitor_threads[t].pc = "save"
    /\ \E next \in { "sleep", AfterException } :
         monitor_threads' = [ monitor_threads EXCEPT ![t].pc = next ]
    /\ UNCHANGED <<is_running, monitoring_thread, metrics_queue,
                   samples_collected, last_sample, failed_collections,
                   caller, monitorCall, notMonitorVars>>

\* _monitor_loop: time.sleep(self.interval) returns
monitor_sleep(t) ==
    /\ monitor_threads[t].pc = "sleep"
    /\ monitor_threads' = [ monitor_threads EXCEPT ![t].pc = "while" ]
    /\ UNCHANGED <<is_running, monitoring_thread, metrics_queue,
                   samples_collected, last_sample, failed_collections,
                   caller, monitorCall, notMonitorVars>>

\* one step of monitoring thread t
MonitorThreadStep(t) ==
    \/ monitor_while(t)
    \/ monitor_collect(t)
    \/ monitor_collect_fails(t)
    \/ monitor_put(t)
    \/ monitor_save(t)
    \/ monitor_sleep(t)

MonitorNext ==
    \/ monitor_start
    \/ monitor_stop
    \/ monitor_stop_join
    \/ get_latest_metrics
    \/ \E n \in AverageSampleCounts : get_average_metrics(n)
    \/ \E t \in MonitorThreads : monitor_while(t)
    \/ \E t \in MonitorThreads : monitor_collect(t)
    \/ \E t \in MonitorThreads : monitor_collect_fails(t)
    \/ \E t \in MonitorThreads : monitor_put(t)
    \/ \E t \in MonitorThreads : monitor_save(t)
    \/ \E t \in MonitorThreads : monitor_sleep(t)

\* ------------------------------------------------------------------------
\* DecisionMaker (core/decision_maker.py)
\* ------------------------------------------------------------------------
\* _generate_cache_key for context None: the key is input_data
GenerateCacheKey(input_data) == input_data

NoDecisionCall ==
    [ op |-> "init", user |-> "", input |-> "", model_fails |-> FALSE,
      kind |-> "", raised |-> "", remaining |-> 0, result |-> <<>>,
      cache_read |-> FALSE, thought_added |-> FALSE, model_called |-> FALSE ]

\* make_decision(user_id, input_data): the rate limit check, the cache
\* lookup, the context analysis, the thought, the model call and the cache
\* write.  model_fails says whether self.model.process_input would raise.
make_decision(user, input_data, model_fails) ==
    \E t \in LaterClockReads, tc \in CacheClockReads :
      LET checked == CheckLimit(requests, rate_limit, burst_limit, user, t)
          left == GetRemainingRequests(checked.requests, rate_limit, user, t)
          cache_key == GenerateCacheKey(input_data)
          i == CacheIndex(cache, cache_key)
          hit == i # 0 /\ IsValid(cache[i], tc)
          \* self.cache after a get that found no valid entry
          looked == IF i # 0 THEN CachePop(cache, cache_key) ELSE cache
          call == [ NoDecisionCall EXCEPT !.op = "make_decision",
                                          !.user = user,
                                          !.input = input_data,
                                          !.model_fails = model_fails ]
      IN  /\ checked.allowed => Len(accepted) < MaxAccepted
          /\ rate_clock' = t
          /\ accepted' = IF checked.allowed
                         THEN Append(accepted, [ user |-> user, time |-> t,
                                                 thread |-> NoThread ])
                         ELSE accepted
          /\ IF ~checked.allowed
             THEN \* lines 36-40
                  /\ requests' = left.requests
                  /\ decisionCall' = [ call EXCEPT
                                         !.kind = "rate_limited",
                                         !.remaining = left.remaining ]
                  /\ UNCHANGED <<cacheVars, thoughts, addCalls, now>>
             ELSE /\ requests' = checked.requests
                  /\ cache_clock' = tc
                  /\ IF hit
                     THEN \* lines 44-46
                          /\ decisionCall' = [ call EXCEPT
                                                 !.kind = "cached",
                                                 !.cache_read = TRUE,
                                                 !.result =
                                                     << cache[i].value >> ]
                          /\ UNCHANGED <<cache, cache_file, last_set,
                                         thoughts, addCalls, now>>
                     ELSE IF "analyze" \notin ContextAnalyzerMethods
                     THEN \* line 49: the attribute lookup raises
                          /\ cache' = looked
                          /\ cache_file' = IF i # 0
                                           THEN << JsonDump(cache') >>
                                           ELSE cache_file
                          /\ decisionCall' = [ call EXCEPT
                                                 !.kind = "raised",
                                                 !.cache_read = TRUE,
                                                 !.raised = "AttributeError" ]
                          /\ UNCHANGED <<last_set, thoughts, addCalls, now>>
                     ELSE \* lines 55-95
                          /\ thoughts' =
                               AppendThought(thoughts,
                                   Thought(NewThoughtId(thoughts), input_data,
                                           100, {}, now, <<>>))
                          /\ addCalls' = addCalls + 1
                          /\ now' = now
                          /\ cache' =
                               IF model_fails THEN looked
                               ELSE CacheSet(looked, cache_max_size, cache_ttl,
                                             cache_key, "v2", <<>>, tc)
                          /\ cache_file' = IF i # 0 \/ ~model_fails
                                           THEN << JsonDump(cache') >>
                                           ELSE cache_file
                          /\ last_set' =
                               IF model_fails THEN last_set
                               ELSE [ last_set EXCEPT
                                        ![cache_key] =
                                            << [ value |-> "v2",
                                                 timestamp |-> tc,
                                                 ttl |-> cache_ttl ] >> ]
                          /\ decisionCall' = [ call EXCEPT
                                                 !.kind =
                                                     IF model_fails
                                                     THEN "error"
                                                     ELSE "decision",
                                                 !.cache_read = TRUE,
                                                 !.thought_added = TRUE,
                                                 !.model_called = TRUE ]
                  /\ UNCHANGED <<cache_max_size, cache_ttl, cacheCall>>
          /\ UNCHANGED <<rate_limit, burst_limit, rate_lock, rate_thread,
                         rateCall, beliefVars, thoughtCall, explVars,
                         uncertaintyVars, profilerVars, monitorVars,
                         complexVars, deployVars>>

DecisionNext ==
    \E u \in RateUsers, in \in CacheKeys, fails \in BOOLEAN :
        make_decision(u, in, fails)

\* ------------------------------------------------------------------------
\* ComplexDecisionMaker (core/complex_decision.py)
\* ------------------------------------------------------------------------
\* self.steps and self.workflows are dicts: sets of <<name, value>> pairs.
\* A step is kept as its required_context; its handler is HandlerDict.
\* the dict a handler returns when it returns one
HandlerDict(step_name) ==
    IF step_name = "s1" THEN { << "k", 1 >> } ELSE { << step_name, 1 >> }

\* d[key] = value on a dict
DictPut(d, key, value) ==
    { p \in d : p[1] # key } \cup { << key, value >> }

\* context.update(result)
DictUpdate(context, result) ==
    { p \in context : p[1] \notin Keys(result) } \cup result

\* context = initial_context.copy(): the loop works on a dict object of its
\* own, so its updates do not reach the caller's dict
ContextCopied == TRUE

\* the except clauses of the loop end it with break
EndsLoop_Never(outcome) == FALSE

EndsLoop(outcome) == outcome \in { "timeout", "raise" }

\* the for loop of execute_workflow from the i-th step name on; seen is the
\* context each handler was called with
RECURSIVE RunSteps(_, _, _, _, _, _, _)
RunSteps(registered, step_names, outcomes, i, context, results, seen) ==
    IF i > Len(step_names)
    THEN [ raised |-> "", results |-> results, context |-> context,
           seen |-> seen ]
    ELSE LET step_name == step_names[i]
         IN  IF step_name \notin Keys(registered)
             THEN [ raised |-> "KeyError", results |-> results,
                    context |-> context, seen |-> seen ]
             ELSE IF Get(registered, step_name) \ Keys(context) # {}
             THEN [ raised |-> "ValueError", results |-> results,
                    context |-> context, seen |-> seen ]
             ELSE LET outcome == outcomes[i]
                      entry == [ step |-> step_name,
                                 error |-> CASE outcome = "timeout" -> "Timeout"
                                             [] outcome = "raise" -> "str(e)"
                                             [] OTHER -> "",
                                 is_dict |-> outcome = "dict",
                                 result |-> IF outcome = "dict"
                                            THEN HandlerDict(step_name)
                                            ELSE {} ]
                      logged == Append(results, entry)
                      called == Append(seen, context)
                  IN  IF EndsLoop(outcome)
                      THEN [ raised |-> "", results |-> logged,
                             context |-> context, seen |-> called ]
                      ELSE RunSteps(registered, step_names, outcomes, i + 1,
                                    IF outcome = "dict"
                                    THEN DictUpdate(context,
                                                    HandlerDict(step_name))
                                    ELSE context,
                                    logged, called)

NoComplexCall ==
    [ op |-> "init", name |-> "", step_names |-> <<>>, raised |-> "",
      initial_context |-> {}, caller_context |-> {}, outcomes |-> <<>>,
      results |-> <<>>, final_context |-> {}, seen |-> <<>> ]

register_step(name, required_context) ==
    /\ steps' = DictPut(steps, name, required_context)
    /\ complexCall' = [ NoComplexCall EXCEPT !.op = "register_step",
                                             !.name = name ]
    /\ UNCHANGED <<workflows, notComplexVars>>

create_workflow(name, step_names) ==
    LET missing_steps == SelectSeq(step_names,
                                   LAMBDA n : n \notin Keys(steps))
    IN  /\ workflows' = IF missing_steps # <<>> THEN workflows
                        ELSE DictPut(workflows, name, step_names)
        /\ complexCall' = [ NoComplexCall EXCEPT
                              !.op = "create_workflow",
                              !.name = name,
                              !.step_names = step_names,
                              !.raised = IF missing_steps # <<>>
                                         THEN "ValueError" ELSE "" ]
        /\ UNCHANGED <<steps, notComplexVars>>

\* execute_workflow; the caller's dict and the copy the loop works on are
\* two objects, and caller_context is the caller's dict after the call
execute_workflow(workflow_name, initial_context, outcomes) ==
    LET call == [ NoComplexCall EXCEPT !.op = "execute_workflow",
                                       !.name = workflow_name,
                                       !.initial_context = initial_context,
                                       !.caller_context = initial_context,
                                       !.outcomes = outcomes ]
    IN  /\ IF workflow_name \notin Keys(workflows)
           THEN complexCall' = [ call EXCEPT !.raised = "ValueError" ]
           ELSE LET step_names == Get(workflows, workflow_name)
                    run == RunSteps(steps, step_names, outcomes, 1,
                                    initial_context, <<>>, <<>>)
                IN  complexCall' =
                        [ call EXCEPT !.step_names = step_names,
                                      !.raised = run.raised,
                                      !.results = IF run.raised = ""
                                                  THEN run.results ELSE <<>>,
                                      !.final_context =
                                          IF run.raised = "" THEN run.context
                                          ELSE {},
                                      !.caller_context =
                                          IF ContextCopied
                                          THEN initial_context
                                          ELSE run.context,
                                      !.seen = run.seen ]
        /\ UNCHANGED <<steps, workflows, notComplexVars>>

ComplexNext ==
    \/ \E n \in StepNames, r \in RequiredContexts : register_step(n, r)
    \/ \E w \in WorkflowNames, ns \in StepNameLists : create_workflow(w, ns)
    \/ \E w \in WorkflowNames, c \in InitialContexts,
          os \in [ 1..MaxWorkflowLen -> StepOutcomes ] :
            execute_workflow(w, c, os)

\* ------------------------------------------------------------------------
\* ModelDeployer (deployment/model_deployer.py)
\* ------------------------------------------------------------------------
\* self.active_deployments is a dict deployment id -> DeploymentConfig: a
\* set of <<id, config>> pairs.  A config is kept without its resources,
\* and its metadata without the rollback timestamp.
\* f"{model_id}-{version}-{environment}"
DeploymentId(model_id, version, environment) ==
    model_id \o << "-" >> \o version \o << "-" >> \o environment

\* deploy_model on <<active_deployments, deployment_paths>>: the id it
\* returns, the dict and the directories afterwards
DeployModel(active, paths, model_id, version, environment, metadata) ==
    LET deployment_id == DeploymentId(model_id, version, environment)
        config == [ model_id |-> model_id, version |-> version,
                    environment |-> environment, metadata |-> metadata ]
    IN  [ id |-> deployment_id,
          active |-> DictPut(active, deployment_id, config),
          paths |-> paths \cup { deployment_id } ]

\* _archive_deployment: the directory, if there is one, is moved under
\* archive/, and the id is popped from the dict
ArchiveDeployment(active, paths, archive, deployment_id) ==
    [ active |-> { p \in active : p[1] # deployment_id },
      paths |-> paths \ { deployment_id },
      archive |-> IF deployment_id \in paths
                  THEN archive \cup { deployment_id } ELSE archive ]

\* rollback_deployment
RollbackDeployment(active, paths, archive, deployment_id, target_version) ==
    IF deployment_id \notin Keys(active)
    THEN [ raised |-> "ValueError", id |-> <<>>, active |-> active,
           paths |-> paths, archive |-> archive ]
    ELSE LET current_config == Get(active, deployment_id)
             new == DeployModel(active, paths, current_config.model_id,
                                target_version, current_config.environment,
                                DictPut(current_config.metadata,
                                        "rollback_from",
                                        current_config.version))
             old == ArchiveDeployment(new.active, new.paths, archive,
                                      deployment_id)
         IN  [ raised |-> "", id |-> new.id, active |-> old.active,
               paths |-> old.paths, archive |-> old.archive ]

\* get_deployment_status: what it raises and the "status" it reports
GetDeploymentStatus(active, paths, deployment_id) ==
    IF deployment_id \notin Keys(active)
    THEN [ raised |-> "ValueError", status |-> "" ]
    ELSE [ raised |-> "",
           status |-> IF deployment_id \in paths THEN "active"
                      ELSE "archived" ]

NoDeployCall ==
    [ op |-> "init", deployment_id |-> <<>>, target_version |-> <<>>,
      raised |-> "", returned |-> <<>>, status |-> "" ]

deploy_model(model_id, version, environment) ==
    LET out == DeployModel(active_deployments, deployment_paths, model_id,
                           version, environment, {})
    IN  /\ active_deployments' = out.active
        /\ deployment_paths' = out.paths
        /\ deployCall' = [ NoDeployCall EXCEPT !.op = "deploy_model",
                                               !.returned = out.id ]
        /\ UNCHANGED <<archived, notDeployVars>>

rollback_deployment(deployment_id, target_version) ==
    LET out == RollbackDeployment(active_deployments, deployment_paths,
                                  archived, deployment_id, target_version)
    IN  /\ active_deployments' = out.active
        /\ deployment_paths' = out.paths
        /\ archived' = out.archive
        /\ deployCall' = [ NoDeployCall EXCEPT
                             !.op = "rollback_deployment",
                             !.deployment_id = deployment_id,
                             !.target_version = target_version,
                             !.raised = out.raised,
                             !.returned = out.id ]
        /\ UNCHANGED notDeployVars

get_deployment_status(deployment_id) ==
    LET out == GetDeploymentStatus(active_deployments, deployment_paths,
                                   deployment_id)
    IN  /\ deployCall' = [ NoDeployCall EXCEPT
                             !.op = "get_deployment_status",
                             !.deployment_id = deployment_id,
                             !.raised = out.raised,
                             !.status = out.status ]
        /\ UNCHANGED <<active_deployments, deployment_paths, archived,
                       notDeployVars>>

\* the ids a caller can pass: those deploy_model can return
DeploymentIds ==
    { DeploymentId(m, v, e) : m \in ModelIds, v \in Versions,
                              e \in Environments }

DeployNext ==
    \/ \E m \in ModelIds, v \in Versions, e \in Environments :
         deploy_model(m, v, e)
    \/ \E d \in DeploymentIds, v \in Versions : rollback_deployment(d, v)
    \/ \E d \in DeploymentIds : get_deployment_status(d)

\* ------------------------------------------------------------------------
\* Specifications: one per component, the other components idle
\* ------------------------------------------------------------------------
\* BeliefGenerator(confidence_threshold), ChainOfThought(),
\* ExplainabilityEngine(): the state after construction
BeliefSpecInit ==
    /\ now = 0
    /\ confidence_threshold \in Thresholds
    /\ beliefs = <<>>
    /\ beliefCall = NoBeliefCall
    /\ thoughts = <<>>
    /\ addCalls = 0
    /\ thoughtCall = NoThoughtCall
    /\ explanations = {}
    /\ genCalls = 0
    /\ explCall = NoExplCall
    /\ handler_threshold = 70
    /\ uncertaintyCall = NoUncertaintyCall
    /\ cache_max_size = 1000
    /\ cache_ttl = 3600
    /\ cache = <<>>
    /\ cache_file = <<>>
    /\ cache_clock = 0
    /\ last_set = [ k \in CacheKeys |-> <<>> ]
    /\ cacheCall = NoCacheCall
    /\ rate_limit = 60
    /\ burst_limit = 10
    /\ requests = [ u \in RateUsers |-> <<>> ]
    /\ rate_lock = NoThread
    /\ rate_clock = 0
    /\ rate_thread = [ t \in RateThreads |-> IdleThread ]
    /\ accepted = <<>>
    /\ rateCall = NoRateCall
    /\ profiles = <<>>
    /\ current_profile = <<>>
    /\ profiles_created = 0
    /\ session_open = FALSE
    /\ profiler_clock = 0
    /\ profilerCall = NoProfilerCall
    /\ is_running = FALSE
    /\ monitoring_thread = <<>>
    /\ monitor_threads = [ t \in MonitorThreads |-> UnbornThread ]
    /\ metrics_queue = <<>>
    /\ samples_collected = 0
    /\ last_sample = <<>>
    /\ failed_collections = 0
    /\ caller = "idle"
    /\ monitorCall = NoMonitorCall
    /\ decisionCall = NoDecisionCall
    /\ steps = {}
    /\ workflows = {}
    /\ complexCall = NoComplexCall
    /\ active_deployments = {}
    /\ deployment_paths = {}
    /\ archived = {}
    /\ deployCall = NoDeployCall

\* the same with the default confidence_threshold = 0.7
Init ==
    /\ now = 0
    /\ confidence_threshold = 70
    /\ beliefs = <<>>
    /\ beliefCall = NoBeliefCall
    /\ thoughts = <<>>
    /\ addCalls = 0
    /\ thoughtCall = NoThoughtCall
    /\ explanations = {}
    /\ genCalls = 0
    /\ explCall = NoExplCall
    /\ handler_threshold = 70
    /\ uncertaintyCall = NoUncertaintyCall
    /\ cache_max_size = 1000
    /\ cache_ttl = 3600
    /\ cache = <<>>
    /\ cache_file = <<>>
    /\ cache_clock = 0
    /\ last_set = [ k \in CacheKeys |-> <<>> ]
    /\ cacheCall = NoCacheCall
    /\ rate_limit = 60
    /\ burst_limit = 10
    /\ requests = [ u \in RateUsers |-> <<>> ]
    /\ rate_lock = NoThread
    /\ rate_clock = 0
    /\ rate_thread = [ t \in RateThreads |-> IdleThread ]
    /\ accepted = <<>>
    /\ rateCall = NoRateCall
    /\ profiles = <<>>
    /\ current_profile = <<>>
    /\ profiles_created = 0
    /\ session_open = FALSE
    /\ profiler_clock = 0
    /\ profilerCall = NoProfilerCall
    /\ is_running = FALSE
    /\ monitoring_thread = <<>>
    /\ monitor_threads = [ t \in MonitorThreads |-> UnbornThread ]
    /\ metrics_queue = <<>>
    /\ samples_collected = 0
    /\ last_sample = <<>>
    /\ failed_collections = 0
    /\ caller = "idle"
    /\ monitorCall = NoMonitorCall
    /\ decisionCall = NoDecisionCall
    /\ steps = {}
    /\ workflows = {}
    /\ complexCall = NoComplexCall
    /\ active_deployments = {}
    /\ deployment_paths = {}
    /\ archived = {}
    /\ deployCall = NoDeployCall

\* UncertaintyHandler(confidence_threshold): the state after construction
UncertaintySpecInit ==
    /\ now = 0
    /\ confidence_threshold = 70
    /\ beliefs = <<>>
    /\ beliefCall = NoBeliefCall
    /\ thoughts = <<>>
    /\ addCalls = 0
    /\ thoughtCall = NoThoughtCall
    /\ explanations = {}
    /\ genCalls = 0
    /\ explCall = NoExplCall
    /\ handler_threshold \in HandlerThresholds
    /\ uncertaintyCall = NoUncertaintyCall
    /\ cache_max_size = 1000
    /\ cache_ttl = 3600
    /\ cache = <<>>
    /\ cache_file = <<>>
    /\ cache_clock = 0
    /\ last_set = [ k \in CacheKeys |-> <<>> ]
    /\ cacheCall = NoCacheCall
    /\ rate_limit = 60
    /\ burst_limit = 10
    /\ requests = [ u \in RateUsers |-> <<>> ]
    /\ rate_lock = NoThread
    /\ rate_clock = 0
    /\ rate_thread = [ t \in RateThreads |-> IdleThread ]
    /\ accepted = <<>>
    /\ rateCall = NoRateCall
    /\ profiles = <<>>
    /\ current_profile = <<>>
    /\ profiles_created = 0
    /\ session_open = FALSE
    /\ profiler_clock = 0
    /\ profilerCall = NoProfilerCall
    /\ is_running = FALSE
    /\ monitoring_thread = <<>>
    /\ monitor_threads = [ t \in MonitorThreads |-> UnbornThread ]
    /\ metrics_queue = <<>>
    /\ samples_collected = 0
    /\ last_sample = <<>>
    /\ failed_collections = 0
    /\ caller = "idle"
    /\ monitorCall = NoMonitorCall
    /\ decisionCall = NoDecisionCall
    /\ steps = {}
    /\ workflows = {}
    /\ complexCall = NoComplexCall
    /\ active_deployments = {}
    /\ deployment_paths = {}
    /\ archived = {}
    /\ deployCall = NoDeployCall

\* CacheManager(cache_dir, max_size, ttl) on an empty directory
CacheSpecInit ==
    /\ now = 0
    /\ confidence_threshold = 70
    /\ beliefs = <<>>
    /\ beliefCall = NoBeliefCall
    /\ thoughts = <<>>
    /\ addCalls = 0
    /\ thoughtCall = NoThoughtCall
    /\ explanations = {}
    /\ genCalls = 0
    /\ explCall = NoExplCall
    /\ handler_threshold = 70
    /\ uncertaintyCall = NoUncertaintyCall
    /\ cache_max_size \in CacheMaxSizes
    /\ cache_ttl \in CacheTtls
    /\ cache = <<>>
    /\ cache_file = <<>>
    /\ cache_clock = 0
    /\ last_set = [ k \in CacheKeys |-> <<>> ]
    /\ cacheCall = NoCacheCall
    /\ rate_limit = 60
    /\ burst_limit = 10
    /\ requests = [ u \in RateUsers |-> <<>> ]
    /\ rate_lock = NoThread
    /\ rate_clock = 0
    /\ rate_thread = [ t \in RateThreads |-> IdleThread ]
    /\ accepted = <<>>
    /\ rateCall = NoRateCall
    /\ profiles = <<>>
    /\ current_profile = <<>>
    /\ profiles_created = 0
    /\ session_open = FALSE
    /\ profiler_clock = 0
    /\ profilerCall = NoProfilerCall
    /\ is_running = FALSE
    /\ monitoring_thread = <<>>
    /\ monitor_threads = [ t \in MonitorThreads |-> UnbornThread ]
    /\ metrics_queue = <<>>
    /\ samples_collected = 0
    /\ last_sample = <<>>
    /\ failed_collections = 0
    /\ caller = "idle"
    /\ monitorCall = NoMonitorCall
    /\ decisionCall = NoDecisionCall
    /\ steps = {}
    /\ workflows = {}
    /\ complexCall = NoComplexCall
    /\ active_deployments = {}
    /\ deployment_paths = {}
    /\ archived = {}
    /\ deployCall = NoDeployCall

\* RateLimiter(requests_per_minute, burst_limit): the state after construction,
\* no thread in a call
RateSpecInit ==
    /\ now = 0
    /\ confidence_threshold = 70
    /\ beliefs = <<>>
    /\ beliefCall = NoBeliefCall
    /\ thoughts = <<>>
    /\ addCalls = 0
    /\ thoughtCall = NoThoughtCall
    /\ explanations = {}
    /\ genCalls = 0
    /\ explCall = NoExplCall
    /\ handler_threshold = 70
    /\ uncertaintyCall = NoUncertaintyCall
    /\ cache_max_size = 1000
    /\ cache_ttl = 3600
    /\ cache = <<>>
    /\ cache_file = <<>>
    /\ cache_clock = 0
    /\ last_set = [ k \in CacheKeys |-> <<>> ]
    /\ cacheCall = NoCacheCall
    /\ rate_limit \in { l[1] : l \in RateLimits }
    /\ burst_limit \in { l[2] : l \in { x \in RateLimits : x[1] = rate_limit } }
    /\ requests = [ u \in RateUsers |-> <<>> ]
    /\ rate_lock = NoThread
    /\ rate_clock = 0
    /\ rate_thread = [ t \in RateThreads |-> IdleThread ]
    /\ accepted = <<>>
    /\ rateCall = NoRateCall
    /\ profiles = <<>>
    /\ current_profile = <<>>
    /\ profiles_created = 0
    /\ session_open = FALSE
    /\ profiler_clock = 0
    /\ profilerCall = NoProfilerCall
    /\ is_running = FALSE
    /\ monitoring_thread = <<>>
    /\ monitor_threads = [ t \in MonitorThreads |-> UnbornThread ]
    /\ metrics_queue = <<>>
    /\ samples_collected = 0
    /\ last_sample = <<>>
    /\ failed_collections = 0
    /\ caller = "idle"
    /\ monitorCall = NoMonitorCall
    /\ decisionCall = NoDecisionCall
    /\ steps = {}
    /\ workflows = {}
    /\ complexCall = NoComplexCall
    /\ active_deployments = {}
    /\ deployment_paths = {}
    /\ archived = {}
    /\ deployCall = NoDeployCall

\* DecisionMaker(api_key, requests_per_minute=...): the state after
\* construction, the cache loaded from the cache directory
DecisionSpecInit ==
    /\ now = 0
    /\ confidence_threshold = 70
    /\ beliefs = <<>>
    /\ beliefCall = NoBeliefCall
    /\ thoughts = <<>>
    /\ addCalls = 0
    /\ thoughtCall = NoThoughtCall
    /\ explanations = {}
    /\ genCalls = 0
    /\ explCall = NoExplCall
    /\ handler_threshold = 70
    /\ uncertaintyCall = NoUncertaintyCall
    /\ cache_max_size = 1000
    /\ cache_ttl = 3600
    /\ cache \in DecisionCaches
    /\ cache_file = IF cache = <<>> THEN <<>> ELSE << JsonDump(cache) >>
    /\ cache_clock = 0
    /\ last_set = [ k \in CacheKeys |-> <<>> ]
    /\ cacheCall = NoCacheCall
    /\ rate_limit \in DecisionRateLimits
    /\ burst_limit = 10
    /\ requests = [ u \in RateUsers |-> <<>> ]
    /\ rate_lock = NoThread
    /\ rate_clock = 0
    /\ rate_thread = [ t \in RateThreads |-> IdleThread ]
    /\ accepted = <<>>
    /\ rateCall = NoRateCall
    /\ profiles = <<>>
    /\ current_profile = <<>>
    /\ profiles_created = 0
    /\ session_open = FALSE
    /\ profiler_clock = 0
    /\ profilerCall = NoProfilerCall
    /\ is_running = FALSE
    /\ monitoring_thread = <<>>
    /\ monitor_threads = [ t \in MonitorThreads |-> UnbornThread ]
    /\ metrics_queue = <<>>
    /\ samples_collected = 0
    /\ last_sample = <<>>
    /\ failed_collections = 0
    /\ caller = "idle"
    /\ monitorCall = NoMonitorCall
    /\ decisionCall = NoDecisionCall
    /\ steps = {}
    /\ workflows = {}
    /\ complexCall = NoComplexCall
    /\ active_deployments = {}
    /\ deployment_paths = {}
    /\ archived = {}
    /\ deployCall = NoDeployCall

BeliefSpec == BeliefSpecInit /\ [][BeliefNext]_vars

ThoughtSpec == Init /\ [][ThoughtNext]_vars

ExplSpec == Init /\ [][ExplNext]_vars

UncertaintySpec == UncertaintySpecInit /\ [][UncertaintyNext]_vars

CacheSpec == CacheSpecInit /\ [][CacheNext]_vars

RateSpec == RateSpecInit /\ [][RateNext]_vars

LimiterSpec == RateSpecInit /\ [][LimiterNext]_vars

\* PerformanceProfiler(): the state after construction is the idle state
ProfilerSpec == Init /\ [][ProfilerNext]_vars

\* SystemMonitor(): the state after construction is the idle state.  Every
\* started thread is scheduled again and again (weak fairness of its
\* steps), and a join() whose thread has ended returns.
MonitorSpec ==
    /\ Init
    /\ [][MonitorNext]_vars
    /\ \A t \in MonitorThreads : WF_vars(MonitorThreadStep(t))
    /\ WF_vars(monitor_stop_join)

DecisionSpec == DecisionSpecInit /\ [][DecisionNext]_vars

\* ComplexDecisionMaker(): the state after construction is the idle state
ComplexSpec == Init /\ [][ComplexNext]_vars

\* ModelDeployer(deployment_dir) on an empty directory: the idle state
DeploySpec == Init /\ [][DeployNext]_vars

\* ------------------------------------------------------------------------
\* Properties of BeliefGenerator
\* ------------------------------------------------------------------------

\* C1: an update_belief(statement, new_evidence) that directly follows
\* generate_belief(statement, context, evidence) with non-empty evidence
\* returns a Belief (not None) whose evidence is evidence + new_evidence.
C1_UpdateAfterGenerateReturnsBelief ==
    [][ ( /\ beliefCall.op = "generate_belief"
          /\ beliefCall.evidence # <<>>
          /\ beliefCall'.op = "update_belief"
          /\ beliefCall'.statement = beliefCall.statement )
        => ( /\ beliefCall'.result # <<>>
             /\ beliefCall'.result[1].evidence
                  = beliefCall.evidence \o beliefCall'.evidence )
      ]_vars

\* C2: every stored belief has confidence >= confidence_threshold, so
\* get_beliefs() returns the whole stored list; generate_belief returns the
\* new belief in every case and stores it only at or above the threshold.
C2_StoredBeliefsReachThreshold ==
    /\ \A i \in 1..Len(beliefs) :
          beliefs[i].confidence >= confidence_threshold
    /\ GetBeliefs(<<>>) = beliefs
    /\ beliefCall.op = "generate_belief" =>
          /\ Len(beliefCall.result) = 1
          /\ beliefCall.result[1].statement = beliefCall.statement
          /\ beliefCall.result[1].evidence = beliefCall.evidence
          /\ beliefCall.result[1].confidence < confidence_threshold =>
                \A i \in 1..Len(beliefs) : beliefs[i] # beliefCall.result[1]
          /\ beliefCall.result[1].confidence >= confidence_threshold =>
                /\ beliefs # <<>>
                /\ beliefs[Len(beliefs)] = beliefCall.result[1]

\* a generate_belief below the threshold returned a belief that is not
\* stored, while an earlier belief is stored
C2_Witness ==
    /\ beliefCall.op = "generate_belief"
    /\ beliefCall.result[1].confidence < confidence_threshold
    /\ beliefCall.result[1].confidence > 0
    /\ beliefs # <<>>

\* C3 as stated: a successful update_belief with non-empty new evidence
\* returns a belief with strictly greater confidence than the one it
\* replaces (confidence strictly increases with every further item).
C3_UpdateStrictlyRaisesConfidence ==
    [][ ( /\ beliefCall'.op = "update_belief"
          /\ beliefCall'.result # <<>>
          /\ beliefCall'.evidence # <<>> )
        => beliefCall'.result[1].confidence
             > beliefCall'.replaced[1].confidence
      ]_vars

\* C3 amended: confidence is 0 without evidence and never decreases with the
\* number of items; an update with non-empty new evidence strictly raises
\* the confidence when the replaced belief has fewer than 5 items and
\* leaves it at the cap 0.95 when it has 5 or more.
C3_ConfidenceRisesUpToCap ==
    [][ /\ ( /\ beliefCall'.op = "generate_belief"
             /\ beliefCall'.evidence = <<>> )
           => beliefCall'.result[1].confidence = 0
        /\ ( /\ beliefCall'.op = "update_belief"
             /\ beliefCall'.result # <<>> )
           => LET old == beliefCall'.replaced[1]
                  new == beliefCall'.result[1]
              IN  /\ new.confidence >= old.confidence
                  /\ ( /\ beliefCall'.evidence # <<>>
                       /\ Len(old.evidence) < 5 )
                     => new.confidence > old.confidence
                  /\ Len(old.evidence) >= 5
                     => /\ new.confidence = 95
                        /\ old.confidence = 95
      ]_vars

\* an update with non-empty new evidence replaced a belief already at the cap
C3_Witness ==
    /\ beliefCall.op = "update_belief"
    /\ beliefCall.evidence # <<>>
    /\ beliefCall.result # <<>>
    /\ Len(beliefCall.replaced[1].evidence) = 5
    /\ Len(beliefCall.result[1].evidence) = 6

C14_GenerateAppendsDuplicates ==
    [][ ( /\ beliefCall'.op = "generate_belief"
          /\ beliefCall'.result[1].confidence >= confidence_threshold )
        => LET same(bs) == { i \in 1..Len(bs) :
                               bs[i].statement = beliefCall'.statement }
           IN  /\ beliefs' = Append(beliefs, beliefCall'.result[1])
               /\ Cardinality(same(beliefs')) = Cardinality(same(beliefs)) + 1
      ]_vars

\* two calls with the same statement and stored evidence left two beliefs
C14_Witness ==
    /\ beliefCall.op = "generate_belief"
    /\ Len(beliefs) = 2
    /\ beliefs[1].statement = beliefs[2].statement
    /\ beliefs[2] = beliefCall.result[1]
    /\ beliefs[1].confidence >= confidence_threshold
    /\ confidence_threshold = 70

\* ------------------------------------------------------------------------
\* Properties of ChainOfThought
\* ------------------------------------------------------------------------

\* C5: the thought list is append-only: add_thought appends exactly one
\* Thought with the given content, confidence, context and
\* previous_thought_id and returns its id, no call changes the earlier
\* thoughts, get_chain() returns the whole list in insertion order and the
\* list is as long as the number of add_thought calls.
C5_ThoughtsAppendOnly ==
    [][ /\ thoughtCall'.op = "add_thought" =>
              /\ Len(thoughts') = Len(thoughts) + 1
              /\ SubSeq(thoughts', 1, Len(thoughts)) = thoughts
              /\ LET last == thoughts'[Len(thoughts')]
                 IN  /\ thoughtCall'.id = << last.id >>
                     /\ last.content = thoughtCall'.content
                     /\ last.confidence = thoughtCall'.confidence
                     /\ last.context = thoughtCall'.context
                     /\ last.previous_thought_id
                          = thoughtCall'.previous_thought_id
        /\ thoughtCall'.op # "add_thought" => thoughts' = thoughts
        /\ Len(thoughts') = addCalls'
        /\ ( thoughtCall'.op = "get_chain" /\ thoughtCall'.thought_id = <<>> )
              => thoughtCall'.chain = thoughts'
      ]_vars

\* get_chain() returned three thoughts added before it
C5_Witness ==
    /\ thoughtCall.op = "get_chain"
    /\ thoughtCall.thought_id = <<>>
    /\ addCalls = 3
    /\ Len(thoughtCall.chain) = 3

\* C6: get_chain(id) of a stored id ends in that thought, every element
\* links to the one before it, the first element has no stored previous
\* thought, and no other thought is in it; an id that is not stored gives
\* the empty list.
C6_ChainIsLinkPath ==
    ( thoughtCall.op = "get_chain" /\ thoughtCall.thought_id # <<>> ) =>
        LET c == thoughtCall.chain
            stored == { thoughts[i].id : i \in 1..Len(thoughts) }
        IN  IF thoughtCall.thought_id[1] \notin stored
            THEN c = <<>>
            ELSE /\ c # <<>>
                 /\ c[Len(c)].id = thoughtCall.thought_id[1]
                 /\ \A i \in 1..Len(c) :
                       \E j \in 1..Len(thoughts) : thoughts[j] = c[i]
                 /\ \A i \in 2..Len(c) :
                       c[i].previous_thought_id = << c[i - 1].id >>
                 /\ \/ c[1].previous_thought_id = <<>>
                    \/ c[1].previous_thought_id[1] \notin stored
                 /\ \A i, j \in 1..Len(c) : i # j => c[i].id # c[j].id

\* get_chain of the second of three linked thoughts returned two thoughts,
\* leaving out the third, which points to the second
C6_Witness ==
    /\ thoughtCall.op = "get_chain"
    /\ Len(thoughts) = 3
    /\ thoughtCall.thought_id = << thoughts[2].id >>
    /\ thoughts[2].previous_thought_id = << thoughts[1].id >>
    /\ thoughts[3].previous_thought_id = << thoughts[2].id >>
    /\ thoughtCall.chain = << thoughts[1], thoughts[2] >>

\* C7: when no thought was added with an explicit previous_thought_id,
\* analyze_chain of get_chain(id of the last added thought) reports a
\* length equal to the number of add_thought calls.
C7_ImplicitChainHasAllThoughts ==
    ( /\ thoughtCall.op = "analyze_chain"
      /\ thoughts # <<>>
      /\ \A i \in 1..Len(thoughts) : thoughts[i].previous_thought_id = <<>>
      /\ thoughtCall.thought_chain
           = GetChain(thoughts, << thoughts[Len(thoughts)].id >>) )
    => thoughtCall.analysis.length = addCalls

\* the place of a stored thought in self.thoughts
ThoughtPosition(thought) ==
    CHOOSE i \in 1..Len(thoughts) : thoughts[i] = thought

\* C28: every previous_thought_id is None, an id never returned, or the id
\* of a thought stored earlier, so get_chain(thought_id) terminates: the
\* walk makes at most one iteration per stored thought, the chain it
\* returns goes through the list from earlier to later thoughts and holds
\* no thought twice.
C28_GetChainTerminates ==
    /\ \A i \in 1..Len(thoughts) :
         LET previous == thoughts[i].previous_thought_id
         IN  \/ previous = <<>>
             \/ previous[1] = UnknownThoughtId
             \/ \E j \in 1..(i - 1) : thoughts[j].id = previous[1]
    /\ ( thoughtCall.op = "get_chain" /\ thoughtCall.thought_id # <<>> ) =>
          LET c == thoughtCall.chain
          IN  /\ Len(c) <= Len(thoughts)
              /\ \A i \in 1..Len(c) :
                   \E j \in 1..Len(thoughts) : thoughts[j] = c[i]
              /\ \A i \in 1..(Len(c) - 1) :
                   ThoughtPosition(c[i]) < ThoughtPosition(c[i + 1])

\* get_chain of the last of three thoughts, each linked to the one before,
\* visited every stored thought once
C28_Witness ==
    /\ thoughtCall.op = "get_chain"
    /\ Len(thoughts) = 3
    /\ thoughtCall.thought_id = << thoughts[3].id >>
    /\ thoughtCall.chain = thoughts
    /\ thoughts[1].previous_thought_id = << UnknownThoughtId >>

\* ------------------------------------------------------------------------
\* Properties of ExplainabilityEngine
\* ------------------------------------------------------------------------

\* C8: generate_explanation returns an Explanation whose decision_id begins
\* with 'exp_', with the given confidence and one reasoning step per thought
\* of the chain in order, and stores it so that get_explanation of its id
\* returns it; get_explanation of an id never generated returns None.
C8_GenerateReturnsAndStores ==
    /\ explCall.op = "generate_explanation" =>
          /\ explCall.raised = ""
          /\ Len(explCall.explanation) = 1
          /\ LET e == explCall.explanation[1]
             IN  /\ e.decision_id[1] = "exp_"
                 /\ e.confidence = explCall.confidence
                 /\ e.reasoning_steps
                      = [ i \in 1..Len(explCall.thought_chain) |->
                            explCall.thought_chain[i].content ]
                 /\ GetExplanation(explanations, e.decision_id) = << e >>
    /\ ( explCall.op = "get_explanation"
         /\ explCall.decision_id = << << "nonexistent_id" >> >> )
          => explCall.explanation = <<>>

\* C9: after n generate_explanation calls the explanations dict holds n
\* entries and get_historical_analysis() reports total_decisions = n.
C9_EveryCallKeepsItsExplanation ==
    /\ Cardinality(explanations) = genCalls
    /\ explCall.op = "get_historical_analysis" =>
          explCall.analysis.total_decisions = genCalls

RECURSIVE SumNumerators(_)
SumNumerators(factors) ==
    IF factors = {} THEN 0
    ELSE LET p == CHOOSE q \in factors : TRUE
         IN  p[2].influence_score[1] + SumNumerators(factors \ {p})

C11_SameValueIsUnchanged ==
    explCall.op = "_compare_context_factors" =>
        \A k \in Keys(explCall.context) \cup Keys(explCall.context2) :
            LET ch == explCall.changes
                inAdded == \E r \in ch.added : r.factor = k
                inRemoved == \E r \in ch.removed : r.factor = k
                inModified == \E r \in ch.modified : r.factor = k
                inUnchanged == k \in ch.unchanged
                in1 == k \in Keys(explCall.context)
                in2 == k \in Keys(explCall.context2)
            IN  /\ Cardinality({ b \in { <<1, inAdded>>, <<2, inRemoved>>,
                                         <<3, inModified>>,
                                         <<4, inUnchanged>> } : b[2] }) = 1
                /\ (~in1 /\ in2) => inAdded
                /\ (in1 /\ ~in2) => inRemoved
                /\ (in1 /\ in2 /\ Get(explCall.context, k)
                                    = Get(explCall.context2, k))
                       => inUnchanged

\* C12: visualize_explanation, summarize_explanation and compare_explanations
\* called with an id that is not stored return 'Explanation not found.',
\* return 'Explanation not found' and raise ValueError, and the stored
\* explanations stay as they were.
C12_UnknownIdFailsAsDefined ==
    [][ LET unknown(id) == id # <<>> /\ GetExplanation(explanations, id[1]) = <<>>
            call == explCall'
        IN  /\ (call.op = "visualize_explanation" /\ unknown(call.decision_id))
                 => /\ call.rendering.message = "Explanation not found."
                    /\ call.rendering.of = <<>>
                    /\ explanations' = explanations
            /\ (call.op = "summarize_explanation" /\ unknown(call.decision_id))
                 => /\ call.rendering.message = "Explanation not found"
                    /\ call.rendering.of = <<>>
                    /\ explanations' = explanations
            /\ (call.op = "compare_explanations"
                  /\ (unknown(call.decision_id) \/ unknown(call.decision_id2)))
                 => /\ call.raised = "ValueError"
                    /\ call.comparison = <<>>
                    /\ explanations' = explanations ]_vars

C12_Witness ==
    /\ explCall.op = "visualize_explanation"
    /\ explCall.decision_id = << << "nonexistent_id" >> >>
    /\ explCall.rendering.message = "Explanation not found."
    /\ genCalls > 0

\* ------------------------------------------------------------------------
\* Properties of UncertaintyHandler
\* ------------------------------------------------------------------------
RECURSIVE SumInts(_)
SumInts(xs) == IF xs = <<>> THEN 0 ELSE Head(xs) + SumInts(Tail(xs))

C15_GetReturnsLastSetUntilExpiry ==
    [][ cacheCall'.op = "get" =>
          LET written == last_set[cacheCall'.key]
          IN  IF /\ written # <<>>
                 /\ cache_clock' - written[1].timestamp < written[1].ttl
              THEN cacheCall'.result = << written[1].value >>
              ELSE cacheCall'.result = <<>>
      ]_vars

\* C15 amended: get(key) returns the value of the most recent set(key, ...)
\* as long as the entry is still in the cache and its age is below its ttl;
\* for an entry whose age has reached its ttl it returns None and removes the
\* entry; for a key not in the cache it returns None; a returned value is
\* never expired, and every entry in the cache is the most recent set of its
\* key.
C15_GetReturnsStoredUnexpired ==
    [][ cacheCall'.op = "get" =>
          LET key == cacheCall'.key
              i == CacheIndex(cache, key)
              written == last_set[key]
          IN  /\ \A j \in 1..Len(cache) :
                   last_set[cache[j].key] =
                       << [ value |-> cache[j].value,
                            timestamp |-> cache[j].timestamp,
                            ttl |-> cache[j].ttl ] >>
              /\ IF i = 0
                 THEN cacheCall'.result = <<>> /\ cache' = cache
                 ELSE IF cache_clock' - written[1].timestamp < written[1].ttl
                 THEN /\ cacheCall'.result = << written[1].value >>
                      /\ cache' = cache
                 ELSE /\ cacheCall'.result = <<>>
                      /\ CacheIndex(cache', key) = 0
                      /\ Len(cache') = Len(cache) - 1
      ]_vars

\* get found its entry expired, removed it and returned None, while another
\* entry stays cached
C15_Witness ==
    /\ cacheCall.op = "get"
    /\ cacheCall.removed
    /\ cacheCall.result = <<>>
    /\ last_set[cacheCall.key] # <<>>
    /\ CacheIndex(cache, cacheCall.key) = 0
    /\ Len(cache) = 1

\* C20: the cache never holds more than max_size entries: after
\* construction (loading cache.json included), after every set and after
\* every get, for every max_size >= 0.
C20_AtMostMaxSizeEntries == Len(cache) <= cache_max_size

\* a new CacheManager with a smaller max_size loaded a file with more
\* entries than it may hold
C20_Witness ==
    /\ cacheCall.op = "__init__"
    /\ cache_file # <<>>
    /\ Len(cache_file[1]) = 2
    /\ Len(cache) = 1
    /\ cache_max_size = 1

\* C21: with max_size >= 1 the entry just written survives the cleanup of
\* its own set: get(key) right after set(key, value), with no time passed in
\* between, returns value, also when other entries carry the same timestamp.
C21_JustWrittenEntryIsKept ==
    [][ ( /\ cacheCall.op = "set"
          /\ cacheCall'.op = "get"
          /\ cacheCall'.key = cacheCall.key
          /\ cache_clock' = cache_clock
          /\ cache_max_size >= 1 )
          => cacheCall'.result = << cacheCall.value >>
      ]_vars

\* C22 as stated: cache.json mirrors the in-memory cache after construction
\* and after every completed set or get (no file standing for an empty
\* cache).
C22_FileMirrorsCache ==
    cacheCall.op \in { "__init__", "set", "get" } =>
        IF cache_file = <<>> THEN cache = <<>>
        ELSE JsonLoad(cache_file[1]) = cache

\* the entries of cache.json, none when there is no file
FileEntries == IF cache_file = <<>> THEN <<>> ELSE JsonLoad(cache_file[1])

\* C22 amended: cache.json equals the in-memory cache after every set and
\* after every get that removed an expired entry; construction and a get
\* that removes nothing leave the file as it is, so the file can hold
\* entries the memory no longer has, never the other way round; a new
\* CacheManager starts with the unexpired entries of the file, cut down to
\* the max_size most recent ones when there are more.
C22_FileHoldsCacheAndMore ==
    /\ [] ( /\ \A i \in 1..Len(cache) :
                  \E j \in 1..Len(FileEntries) : FileEntries[j] = cache[i]
            /\ ( \/ cacheCall.op = "set"
                 \/ cacheCall.op = "get" /\ cacheCall.removed )
                 => cache_file = << JsonDump(cache) >>
            /\ cacheCall.op = "__init__" =>
                 LET unexpired ==
                         SelectSeq(FileEntries,
                                   LAMBDA e : cache_clock - e.timestamp < e.ttl)
                 IN  IF Len(unexpired) <= cache_max_size
                     THEN cache = unexpired
                     ELSE /\ Len(cache) = cache_max_size
                          /\ \A i \in 1..Len(cache) :
                               /\ \E j \in 1..Len(unexpired) :
                                    unexpired[j] = cache[i]
                               /\ \A j \in 1..Len(unexpired) :
                                    CacheIndex(cache, unexpired[j].key) = 0
                                      => unexpired[j].timestamp
                                           <= cache[i].timestamp )
    /\ [][ /\ (cacheCall'.op = "get" /\ ~cacheCall'.removed)
                => cache_file' = cache_file /\ cache' = cache
           /\ cacheCall'.op = "__init__" => cache_file' = cache_file
         ]_vars

\* a new CacheManager loaded a file of two entries of which one had expired:
\* the file still holds both, the memory one
C22_Witness ==
    /\ cacheCall.op = "__init__"
    /\ cache_max_size = 2
    /\ Len(FileEntries) = 2
    /\ Len(cache) = 1

\* ------------------------------------------------------------------------
\* Properties of RateLimiter
\* ------------------------------------------------------------------------
\* C16: with several threads calling check_limit and get_remaining_requests
\* for one user, the calls take effect one at a time: in every window of one
\* minute at most burst_limit check_limit calls returned True, and every
\* accepted call is recorded exactly once: the user's request list is a
\* suffix of the accepted calls in the order they returned, and holds every
\* accepted call of the last minute.
C16_AcceptedWithinBurstAndRecorded ==
    \A u \in RateUsers :
        LET log == SelectSeq(accepted, LAMBDA a : a.user = u)
            times == [ i \in 1..Len(log) |-> log[i].time ]
            reqs == IF requests[u] = <<>> THEN <<>> ELSE requests[u][1]
            recent == RecentRequests(times, rate_clock)
        IN  /\ \A start \in 0..MaxRateClock :
                 Cardinality({ i \in 1..Len(times) :
                                 /\ start <= times[i]
                                 /\ times[i] < start + Minute }) <= burst_limit
            /\ Len(reqs) <= Len(times)
            /\ reqs = SubSeq(times, Len(times) - Len(reqs) + 1, Len(times))
            /\ Len(recent) <= Len(reqs)

\* both threads had calls accepted within one minute, the burst limit is
\* used up, and while one thread is inside a call the other waits for the
\* lock
C16_Witness ==
    /\ \E i, j \in 1..Len(accepted) :
         /\ accepted[i].thread # accepted[j].thread
         /\ accepted[i].time = accepted[j].time
    /\ burst_limit = 2
    /\ rateCall.op = "check_limit"
    /\ ~rateCall.allowed
    /\ \E t1, t2 \in RateThreads :
         /\ rate_thread[t1].pc = "cleanup_write"
         /\ rate_lock = t1
         /\ rate_thread[t2].pc = "acquire"

\* the accepted check_limit calls of user u with a time in [from, to]
AcceptedBetween(u, from, to) ==
    Cardinality({ i \in 1..Len(accepted) :
                    /\ accepted[i].user = u
                    /\ from <= accepted[i].time
                    /\ accepted[i].time <= to })

\* C23: for each user, in every window [t, t + 60 s) at most
\* min(burst_limit, requests_per_minute) check_limit calls returned True; a
\* refused call appends nothing to the user's request list; and a call for
\* one user leaves every other user's request list as it was.
C23_PerUserWindowBound ==
    /\ [] ( \A u \in RateUsers : \A start \in 0..MaxRateClock :
               AcceptedBetween(u, start, start + Minute - 1)
                   <= Min(burst_limit, rate_limit) )
    /\ [][ rateCall'.op \in { "check_limit", "get_remaining_requests" } =>
             LET u == rateCall'.user
                 before == IF requests[u] = <<>> THEN <<>> ELSE requests[u][1]
                 after == IF requests'[u] = <<>> THEN <<>> ELSE requests'[u][1]
             IN  /\ \A v \in RateUsers \ { u } : requests'[v] = requests[v]
                 /\ (rateCall'.op = "check_limit" /\ ~rateCall'.allowed)
                      => /\ after = RecentRequests(before, rate_clock')
                         /\ accepted' = accepted
                 /\ (rateCall'.op = "check_limit" /\ rateCall'.allowed)
                      => /\ after = Append(RecentRequests(before, rate_clock'),
                                           rate_clock')
                         /\ Len(accepted') = Len(accepted) + 1
         ]_vars

\* each user has used up the limit within one minute, and the call that
\* returned last refused one of them while the other's list stayed
C23_Witness ==
    /\ \A u \in RateUsers :
         AcceptedBetween(u, rate_clock - Minute + 1, rate_clock)
             = Min(burst_limit, rate_limit)
    /\ rate_limit = 1
    /\ rateCall.op = "check_limit"
    /\ ~rateCall.allowed
    /\ \A u \in RateUsers : requests[u] # <<>> /\ Len(requests[u][1]) = 1

\* C24: get_remaining_requests agrees with check_limit: when
\* get_remaining_requests(user) returned more than 0, a check_limit(user)
\* made right after it (no time passed) returns True; and when
\* check_limit(user) refused, the get_remaining_requests(user) made right
\* after it returns 0.
C24_RemainingAgreesWithCheck ==
    [][ ( /\ rateCall'.user = rateCall.user
          /\ rate_clock' = rate_clock ) =>
          /\ ( /\ rateCall.op = "get_remaining_requests"
               /\ rateCall.remaining > 0
               /\ rateCall'.op = "check_limit" )
               => rateCall'.allowed
          /\ ( /\ rateCall.op = "check_limit"
               /\ ~rateCall.allowed
               /\ rateCall'.op = "get_remaining_requests" )
               => rateCall'.remaining = 0
      ]_vars

\* C25: with burst_limit > 0 and requests_per_minute > 0, a check_limit made
\* more than one minute after the oldest request in the user's list returns
\* True, also right after a refused call.
C25_RefusedUserIsAcceptedAgain ==
    [][ rateCall'.op = "check_limit" =>
          LET u == rateCall'.user
          IN  ( /\ burst_limit > 0
                /\ rate_limit > 0
                /\ requests[u] # <<>>
                /\ requests[u][1] # <<>>
                /\ rate_clock' - requests[u][1][1] > Minute )
                => rateCall'.allowed
      ]_vars

\* a user was accepted, then refused, and accepted again more than one
\* minute after the first request
C25_Witness ==
    /\ rateCall.op = "check_limit"
    /\ rateCall.allowed
    /\ rateCall.after_refusal
    /\ AcceptedBetween(rateCall.user, 0, rate_clock - Minute - 1) > 0

\* ------------------------------------------------------------------------
\* Properties of DecisionMaker
\* ------------------------------------------------------------------------
\* C26: make_decision checks the rate limit first: a refused request returns
\* the 'Rate limit exceeded' error without reading or writing the cache,
\* adding a thought or calling the model; a cache hit returns the cached
\* result without adding a thought or calling the model and still uses up
\* one request of the user's rate limit; and a request whose model call
\* fails returns an error dict and leaves the cache unchanged.
C26_RateLimitFirstAndFrames ==
    [][ decisionCall'.op = "make_decision" =>
          LET call == decisionCall'
          IN  /\ call.kind = "rate_limited" =>
                   /\ ~call.cache_read
                   /\ cache' = cache /\ cache_file' = cache_file
                   /\ thoughts' = thoughts
                   /\ ~call.model_called
                   /\ accepted' = accepted
              /\ call.kind = "cached" =>
                   /\ thoughts' = thoughts
                   /\ ~call.model_called
                   /\ cache' = cache
                   /\ Len(accepted') = Len(accepted) + 1
                   /\ accepted'[Len(accepted')].user = call.user
              /\ ( call.model_fails
                     /\ call.kind \notin { "rate_limited", "cached" } ) =>
                   /\ call.kind = "error"
                   /\ cache' = cache
      ]_vars

\* ------------------------------------------------------------------------
\* Properties of ComplexDecisionMaker
\* ------------------------------------------------------------------------
\* C29: every step name stored in a workflow is registered; an
\* execute_workflow that returns has run the steps in the listed order, one
\* results entry per step started; the first handler was called with the
\* initial context and each later one with the context updated by the dict
\* results of the steps before it; only the last entry can be an error
\* entry, the run went on after every step that neither timed out nor
\* raised and stopped at the first that did; and the caller's
\* initial_context is as it was.
C29_WorkflowRunsInOrderAndStops ==
    /\ \A w \in Keys(workflows) :
         \A i \in 1..Len(Get(workflows, w)) :
             Get(workflows, w)[i] \in Keys(steps)
    /\ ( complexCall.op = "execute_workflow" /\ complexCall.raised = "" ) =>
          LET names == Get(workflows, complexCall.name)
              r == complexCall.results
              seen == complexCall.seen
              failed(i) == complexCall.outcomes[i] \in { "timeout", "raise" }
          IN  /\ Len(r) <= Len(names)
              /\ Len(seen) = Len(r)
              /\ \A i \in 1..Len(r) :
                   /\ r[i].step = names[i]
                   /\ (r[i].error # "") = failed(i)
                   /\ r[i].error # "" => i = Len(r)
                   /\ seen[i] = IF i = 1 THEN complexCall.initial_context
                                ELSE IF r[i - 1].is_dict
                                THEN DictUpdate(seen[i - 1], r[i - 1].result)
                                ELSE seen[i - 1]
              /\ Len(r) < Len(names) => ( r # <<>> /\ r[Len(r)].error # "" )
              /\ complexCall.caller_context = complexCall.initial_context

\* a workflow of two steps: the first returned a dict that changed a key of
\* the initial context, the second saw the change and timed out
C29_Witness ==
    /\ complexCall.op = "execute_workflow"
    /\ complexCall.raised = ""
    /\ Len(complexCall.results) = 2
    /\ complexCall.results[1].is_dict
    /\ complexCall.results[2].error = "Timeout"
    /\ complexCall.initial_context = { << "k", 0 >> }
    /\ complexCall.seen[2] = { << "k", 1 >> }
    /\ complexCall.final_context = { << "k", 1 >> }

\* ------------------------------------------------------------------------
\* Properties of ModelDeployer
\* ------------------------------------------------------------------------
\* C30: rollback_deployment on an active deployment returns the id of a
\* deployment that is active afterwards (get_deployment_status on it
\* succeeds with status 'active'), for every target_version, the deployed
\* one included; on an unknown deployment it raises ValueError and leaves
\* the active deployments unchanged.
C30_RollbackReturnsActiveDeployment ==
    [][ deployCall'.op = "rollback_deployment" =>
          IF deployCall'.deployment_id \in Keys(active_deployments)
          THEN /\ deployCall'.raised = ""
               /\ GetDeploymentStatus(active_deployments', deployment_paths',
                                      deployCall'.returned)
                    = [ raised |-> "", status |-> "active" ]
          ELSE /\ deployCall'.raised = "ValueError"
               /\ active_deployments' = active_deployments
      ]_vars

\* ------------------------------------------------------------------------
\* Properties of PerformanceProfiler
\* ------------------------------------------------------------------------
\* C17: start_profiling raises RuntimeError whenever a session is in
\* progress, stop_profiling raises RuntimeError whenever no session is in
\* progress, and a call that raises leaves the recorded profiles unchanged.
C17_ProfilerRejectsMisuse ==
    [][ LET call == profilerCall'
        IN  /\ (call.op = "start_profiling" /\ session_open)
                 => call.raised = "RuntimeError"
            /\ (call.op = "stop_profiling" /\ ~session_open)
                 => call.raised = "RuntimeError"
            /\ (call.op \in { "start_profiling", "stop_profiling" }
                  /\ call.raised = "RuntimeError")
                 => profiles' = profiles
      ]_vars

\* C27: sessions can be run one after another: with no session in progress
\* start_profiling succeeds, a stop_profiling that ends a session returns the
\* statistics of the section that session started, and a call of a decorated
\* function made with no session in progress raises no RuntimeError and
\* leaves one more completed profile, under its own name, with stats set.
C27_SessionsRunOneAfterAnother ==
    [][ LET call == profilerCall'
        IN  /\ (call.op = "start_profiling" /\ ~session_open)
                 => /\ call.raised = ""
                    /\ ProfileIndex(profiles', call.name) # 0
            /\ (call.op = "stop_profiling" /\ session_open)
                 => /\ call.raised = ""
                    /\ call.result # << {} >>
            /\ (call.op = "profile" /\ ~session_open)
                 => /\ call.raised # "RuntimeError"
                    /\ ProfileIndex(profiles', call.name) # 0
                    /\ profiles'[ProfileIndex(profiles', call.name)].stats
                         # <<>>
      ]_vars

\* ------------------------------------------------------------------------
\* Properties of SystemMonitor
\* ------------------------------------------------------------------------
\* C18: get_latest_metrics returns the sample the monitoring loop collected
\* most recently (the last one put on the queue) when samples are waiting,
\* and None when no sample has been collected.
C18_LatestIsMostRecentSample ==
    [][ ( /\ monitorCall'.op = "get_latest_metrics"
          /\ monitorCall'.turn # monitorCall.turn ) =>
          /\ metrics_queue # <<>>
               => monitorCall'.result = << metrics_queue[Len(metrics_queue)] >>
          /\ last_sample = <<>> => monitorCall'.result = <<>>
      ]_vars

\* C19: an exception while collecting metrics does not end the monitoring
\* loop and enqueues nothing: a thread ends only at the loop condition with
\* is_running false; start() while running creates no second thread; and
\* stop() terminates: once it has cleared is_running the thread ends, join
\* returns and is_running is still false.
C19_LoopSurvivesErrorsAndStops ==
    /\ [](Cardinality(LiveThreads) <= 1)
    /\ [][ /\ \A t \in MonitorThreads :
                /\ ( /\ monitor_threads[t].pc = "collect"
                     /\ monitor_threads'[t].pc \notin { "collect", "put" } )
                     => /\ monitor_threads'[t].pc = "while"
                        /\ metrics_queue' = metrics_queue
                /\ ( /\ monitor_threads[t].pc # "done"
                     /\ monitor_threads'[t].pc = "done" )
                     => /\ monitor_threads[t].pc = "while"
                        /\ ~is_running
           /\ ( /\ monitorCall'.op = "start"
                /\ monitorCall'.turn # monitorCall.turn
                /\ is_running )
                => /\ ~monitorCall'.started
                   /\ monitor_threads' = monitor_threads
           /\ (caller = "joining" /\ caller' = "idle")
                => /\ monitorCall'.op = "stop"
                   /\ ~is_running'
                   /\ LiveThreads = {}
         ]_vars
    /\ (caller = "joining") ~> (caller = "idle" /\ ~is_running
                                  /\ LiveThreads = {})

\* a collection raised, the thread went on to collect a sample afterwards,
\* and a later stop() has returned with the thread ended
C19_Witness ==
    /\ monitorCall.op = "stop"
    /\ failed_collections > 0
    /\ samples_collected > 0
    /\ ~is_running
    /\ monitoring_thread # <<>>
    /\ monitor_threads[monitoring_thread[1]].pc = "done"

====
